---- MODULE Spec2Model ----
(***************************************************************************)
(* Playback-state tracking of the streaming backend: the playback session  *)
(* collection (PlaybackSession model), the per-viewer watch history array   *)
(* (User.watchHistory) and the request handlers of the playback and user   *)
(* controllers that read and write them.  Every await of a handler is one  *)
(* step: the store applies each single operation atomically, and handlers  *)
(* of concurrent requests interleave between their awaits.                 *)
(***************************************************************************)
EXTENDS Integers, Sequences, FiniteSets, TLC

VARIABLES
    sessions,       \* the PlaybackSession collection, in insertion order; _id = index
    watchHistory,   \* watchHistory[v]: the User.watchHistory array of viewer v
    now,            \* the clock behind Date.now(): every reading is later than the last
    pc,             \* pc[p]: the await at which request handler p is suspended
    req,            \* req[p]: req.user._id and req.body / req.params of handler p
    doc,            \* doc[p]: the session document handler p holds in memory
    watchlist,      \* watchlist[v]: the User.watchlist array of viewer v (content ids)
    views,          \* views[c]: the Content.views counter of content c
    subscription,   \* subscription[v]: the User.subscription document of viewer v
    profiles,       \* profiles[v]: the User.profiles array of viewer v, with the version key
    user,           \* user[p]: the user document handler p holds in memory
    last,           \* history: the call that finished last, with the state it started from
    recency,        \* history: recency[v] = contents in the order their upserts finished
    reached         \* history: ids of the sessions a save of which computed >= 90 %

vars == <<sessions, watchHistory, now, pc, req, doc, watchlist, views, subscription, profiles,
          user, last, recency, reached>>

----------------------------------------------------------------------------
(* The inputs requests are drawn from, and the bounds of the model.        *)

Procs == {1, 2}                 \* request handlers that may run concurrently
Viewers == {"v1", "v2"}         \* authenticated users (req.user._id)
PastContent(i) == 100 + i       \* the contents watched before the behaviour starts
Contents == {1, PastContent(2)} \* content ids requests name: a new and an earlier one
NoEpisode == "none"             \* episodeId absent from the request (undefined / null)
NoSession == 0                  \* no sessionId in the request / no document found

MaxSessions == 2                \* session documents created in one behaviour
MaxNow == 4                     \* readings of the clock in one behaviour

HistoryCap == 100               \* $slice: 100
ContinueWatchingLimit == 20     \* .limit(20) of the continue-watching query
CompletedAt == 90               \* percentage >= 90 marks the session completed

SessionIds == 1..MaxSessions

\* Requests of the concurrent specification: one viewer reporting on one content
\* from two devices, sessions looked up by identity triple; 108 of 120 is 90 %.
ConcurrentInputs ==
    [ hist |-> FALSE, past |-> 0, viewers |-> {"v1"}, contents |-> {1}, startContents |-> {1},
      episodes |-> {NoEpisode}, sessionIds |-> {NoSession}, currentTimes |-> {54, 108},
      durations |-> {120} ]

\* Requests of the sequential specification: both contents, lookups by session id
\* as well, positions on either side of the 90 % boundary.
SequentialInputs ==
    [ hist |-> TRUE, past |-> 0, viewers |-> {"v1"}, contents |-> Contents, startContents |-> Contents,
      episodes |-> {NoEpisode}, sessionIds |-> {NoSession} \cup SessionIds,
      currentTimes |-> {107, 108}, durations |-> {120} ]

\* Requests of two viewers on different plans: playback is started on a content
\* of every tier, and a report may carry the id of any session.
TieredContents == {1, 2, 3, 4}
CrossInputs ==
    [ hist |-> TRUE, past |-> 0, viewers |-> Viewers, contents |-> {1}, startContents |-> TieredContents,
      episodes |-> {NoEpisode}, sessionIds |-> {NoSession, 1}, currentTimes |-> {54},
      durations |-> {120} ]

\* Requests whose body nothing has validated: a negative position, a position
\* past the end, a duration of zero and a duration that differs from the last one.
EdgeInputs ==
    [ hist |-> TRUE, past |-> 0, viewers |-> {"v1"}, contents |-> {1}, startContents |-> {1},
      episodes |-> {NoEpisode}, sessionIds |-> {NoSession},
      currentTimes |-> {0 - 6, 54, 132}, durations |-> {0, 60, 120} ]

\* the sessions a viewer holds before the behaviour starts: one more than a page
\* of the continue-watching list
PastSessionCount == ContinueWatchingLimit + 1

\* Requests of a viewer who holds PastSessionCount sessions of earlier contents.
LibraryInputs ==
    [ hist |-> TRUE, past |-> PastSessionCount, viewers |-> {"v1"}, contents |-> {1},
      startContents |-> {1}, episodes |-> {NoEpisode}, sessionIds |-> {NoSession},
      currentTimes |-> {54, 108}, durations |-> {120} ]

\* Requests on a series: the content as a whole and one of its episodes.
EpisodeInputs ==
    [ hist |-> TRUE, past |-> 0, viewers |-> {"v1"}, contents |-> {1},
      startContents |-> {1}, episodes |-> {NoEpisode, "e1"}, sessionIds |-> {NoSession},
      currentTimes |-> {54, 108}, durations |-> {120} ]

\* Requests of a viewer who reports on a content, completes it and asks for
\* recommendations with a limit below, within and above what the catalog offers.
RecInputs ==
    [ hist |-> TRUE, past |-> PastSessionCount, viewers |-> {"v1"}, contents |-> {1},
      startContents |-> {1}, episodes |-> {NoEpisode}, sessionIds |-> {NoSession},
      currentTimes |-> {108}, durations |-> {120}, limits |-> {1, 10, 30} ]

\* the number of earlier reports of a viewer some of whose contents were deleted
GonePastCount == 3

\* Requests of a viewer some of whose ledger and watchlist entries name contents
\* that were deleted from the catalog since.
GoneInputs ==
    [ hist |-> TRUE, past |-> GonePastCount, viewers |-> {"v1"}, contents |-> {1},
      startContents |-> {1}, episodes |-> {NoEpisode}, sessionIds |-> {NoSession},
      currentTimes |-> {108}, durations |-> {120}, limits |-> {1, 10, 30} ]

\* the number of earlier reports of the viewer who asks for recommendations of
\* every kind
ReadPastCount == 2

\* Requests of a viewer who reports on a content, looks a content up and asks for
\* recommendations of every kind.
ReadInputs ==
    [ hist |-> TRUE, past |-> ReadPastCount, viewers |-> {"v1"}, contents |-> {1},
      startContents |-> {1}, episodes |-> {NoEpisode}, sessionIds |-> {NoSession},
      currentTimes |-> {108}, durations |-> {120}, limits |-> {1, 10} ]

\* Reports of two handlers on the one session the viewer holds, at positions on
\* either side of the 90 % boundary.
RaceInputs ==
    [ hist |-> FALSE, past |-> 1, viewers |-> {"v1"}, contents |-> {PastContent(1)},
      startContents |-> {PastContent(1)}, episodes |-> {NoEpisode},
      sessionIds |-> {NoSession, 1}, currentTimes |-> {60, 89, 90, 95},
      durations |-> {100} ]

\* Requests of the specification in which a store call may reject.
\* Requests of the subscription specification: the paying viewer starts
\* playback of a basic and of a standard content, cancels, and pays again
SubInputs ==
    [ hist |-> TRUE, past |-> 0, viewers |-> {"v2"}, contents |-> {2},
      startContents |-> {2, 3}, episodes |-> {NoEpisode}, sessionIds |-> {NoSession},
      currentTimes |-> {60}, durations |-> {120}, plans |-> {"basic", "standard"} ]

\* Requests of the profile specification: one user creating profiles and
\* deleting the first, the fourth or the fifth
ProfileInputs ==
    [ hist |-> TRUE, past |-> 0, viewers |-> {"v1"}, contents |-> {1},
      startContents |-> {1}, episodes |-> {NoEpisode}, sessionIds |-> {NoSession},
      currentTimes |-> {60}, durations |-> {120}, profileIds |-> {1, 4, 5} ]

FaultInputs ==
    [ hist |-> TRUE, past |-> 0, viewers |-> {"v1"}, contents |-> {1}, startContents |-> {1},
      episodes |-> {NoEpisode}, sessionIds |-> {NoSession}, currentTimes |-> {54},
      durations |-> {120} ]

----------------------------------------------------------------------------
(* PlaybackSession schema and its pre('save') hook.                        *)

\* progress.percentage is the quotient currentTime / duration * 100; it is kept as
\* the exact fraction <<numerator, denominator>>, denominator > 0.
Percentage(currentTime, duration) == <<currentTime * 100, duration>>

PctGE(a, n) == a[1] >= n * a[2]
PctLT(a, n) == a[1] < n * a[2]
PctGT(a, n) == a[1] > n * a[2]
PctEq(a, b) == a[1] * b[2] = b[1] * a[2]

\* schema defaults of a new document, before the hook runs
playbackSessionSchema(userId, contentId, episodeId, currentTime, duration, t) ==
    [ userId |-> userId, contentId |-> contentId, episodeId |-> episodeId,
      currentTime |-> currentTime, duration |-> duration,
      percentage |-> <<0, 1>>, completed |-> FALSE,
      lastUpdated |-> t, sessionDuration |-> 0 ]

\* the hook as a plausible slip would write it: completed follows the percentage
PreSaveResets(d, t) ==
    LET d1 == IF d.duration > 0
              THEN [d EXCEPT !.percentage = Percentage(d.currentTime, d.duration)]
              ELSE d
        d2 == IF d.duration > 0
              THEN [d1 EXCEPT !.completed = PctGE(d1.percentage, CompletedAt)]
              ELSE d1
    IN  [d2 EXCEPT !.lastUpdated = t]

\* the hook with a strict comparison
PreSaveStrict(d, t) ==
    LET d1 == IF d.duration > 0
              THEN [d EXCEPT !.percentage = Percentage(d.currentTime, d.duration)]
              ELSE d
        d2 == IF d.duration > 0 /\ PctGT(d1.percentage, CompletedAt)
              THEN [d1 EXCEPT !.completed = TRUE]
              ELSE d1
    IN  [d2 EXCEPT !.lastUpdated = t]

\* playbackSessionSchema.pre('save')
PreSave(d, t) ==
    LET d1 == IF d.duration > 0
              THEN [d EXCEPT !.percentage = Percentage(d.currentTime, d.duration)]
              ELSE d
        d2 == IF d.duration > 0 /\ PctGE(d1.percentage, CompletedAt)
              THEN [d1 EXCEPT !.completed = TRUE]
              ELSE d1
    IN  [d2 EXCEPT !.lastUpdated = t]

SessionFields ==
    {"userId", "contentId", "episodeId", "currentTime", "duration", "percentage",
     "completed", "lastUpdated", "sessionDuration"}

\* a save that writes the whole in-memory document back
SaveWhole(stored, before, after) == after

\* document.save() of a document read earlier: the update sets only the paths
\* whose value was changed in memory since the read; every other path of the
\* stored document keeps what the store holds now.
SaveDelta(stored, before, after) ==
    [ f \in SessionFields |-> IF after[f] # before[f] THEN after[f] ELSE stored[f] ]

\* PlaybackSession.create: the new document goes through the hook and is inserted
Create(userId, contentId, episodeId, currentTime, duration, t) ==
    PreSave(playbackSessionSchema(userId, contentId, episodeId, currentTime, duration, t), t)

\* findOne without a sort returns the first match in natural (insertion) order
FirstOf(S) == IF S = {} THEN NoSession ELSE CHOOSE i \in S : \A j \in S : i <= j

----------------------------------------------------------------------------
(* The catalog, the plans and the subscriptions.                           *)

planHierarchy == <<"free", "basic", "standard", "premium">>

indexOf(seq, x) ==
    IF \E i \in 1..Len(seq) : seq[i] = x
    THEN (CHOOSE i \in 1..Len(seq) : seq[i] = x) - 1
    ELSE -1

\* Content documents; Unresolved is an id the catalog does not hold
\* the earlier contents the catalog still holds: PastContent(1..CatalogPast)
CatalogPast == PastSessionCount + 1

GenreNames == <<"Drama", "Action", "Comedy", "Horror", "SciFi", "Romance", "Thriller">>

\* genres of a content: the two earlier contents watched last are dramas, every
\* third earlier content carries two genres, content 4 a genre of its own
GenresOf(c) ==
    IF c = 1 THEN <<"Comedy", "Romance">>
    ELSE IF c = 2 THEN <<"Drama">>
    ELSE IF c = 3 THEN <<"Horror">>
    ELSE IF c = 4 THEN <<"Western">>
    ELSE IF c <= PastContent(2) THEN <<"Drama">>
    ELSE IF c % 3 = 0 THEN <<GenreNames[(c % 7) + 1], GenreNames[((c + 3) % 7) + 1]>>
    ELSE <<GenreNames[(c % 7) + 1]>>

\* a Content document: the paths the handlers read
ContentDoc(c) ==
    [ subscriptionRequired |-> IF c \in 2..4 THEN planHierarchy[c] ELSE "free",
      genres |-> GenresOf(c),
      type |-> IF c % 2 = 0 THEN "series" ELSE "movie",
      director |-> IF c % 4 = 1 THEN "d1" ELSE IF c % 4 = 2 THEN "d2" ELSE "d3",
      cast |-> IF c = 1 THEN <<"n1", "n2", "n3", "n4">>
               ELSE IF c % 6 = 0 THEN <<"n4">>
               ELSE IF c % 6 = 1 THEN <<"n3", "n5">>
               ELSE <<"n6">>,
      status |-> IF c = 3 THEN "archived" ELSE IF c % 5 = 0 THEN "draft" ELSE "published",
      imdbRating |-> (c * 3) % 10,
      createdAt |-> 0 - c ]

\* the _ids of the collection, ascending
CatalogIds == <<1, 2, 3, 4>> \o [ i \in 1..CatalogPast |-> PastContent(i) ]

Catalog ==
    [ c \in TieredContents \cup { PastContent(i) : i \in 1..CatalogPast } |-> ContentDoc(c) ]
Unresolved == 0 - 1

\* views: { type: Number, default: 0 } as the stored contents hold it at the start
InitialViews == [ c \in DOMAIN Catalog |-> (c * 7) % 5 ]

\* a lookup that answers an unknown id with a document of schema defaults
ContentFindByIdDefault(c) ==
    IF c \in DOMAIN Catalog
    THEN [ found |-> TRUE, content |-> Catalog[c] ]
    ELSE [ found |-> TRUE, content |-> [subscriptionRequired |-> "free"] ]

\* Content.findById: the document, or null for an id the collection does not hold
ContentFindById(c) ==
    IF c \in DOMAIN Catalog
    THEN [ found |-> TRUE, content |-> Catalog[c] ]
    ELSE [ found |-> FALSE, content |-> [subscriptionRequired |-> "free"] ]

\* subscription.plan of the stored users: v1 has never subscribed, v2 has
\* bought the basic plan
UserPlan == [v \in Viewers |-> IF v = "v1" THEN "free" ELSE "basic"]

\* no Stripe subscription: stripeSubscriptionId is not set
NoStripe == "none"

\* the defaults of the subscription sub-document
subscriptionDefaults ==
    [ plan |-> "free", status |-> "inactive", stripeSubscriptionId |-> NoStripe ]

\* the subscription sub-document: the schema defaults for a viewer on the free
\* plan, and what checkout.session.completed wrote for a paying one
InitialSubscription ==
    [ v \in Viewers |->
        IF UserPlan[v] = "free"
        THEN subscriptionDefaults
        ELSE [ plan |-> UserPlan[v], status |-> "active", stripeSubscriptionId |-> v ] ]

\* profiles: [] and the version key __v: 0 of a new user document; made counts
\* the profile ids generated so far, so that every new _id is fresh
InitialProfiles == [ v \in Viewers |-> [ list |-> <<>>, version |-> 0, made |-> 0 ] ]

MaxProfiles == 5                \* user.profiles.length >= 5 refuses a new profile
StartProfiles == 4              \* the most profiles a user holds when the behaviour starts
MaxCreated == 2                 \* profiles created in one behaviour

\* handler p holds no user document
NoUser == [ viewer |-> "v1", subscription |-> subscriptionDefaults,
            list |-> <<>>, version |-> 0, pushed |-> 0, modified |-> FALSE ]

\* the comparison written with <= in place of <: the viewer's own tier is refused as well
PlanBelowOrEqual(userPlan, requiredPlan) ==
    indexOf(planHierarchy, userPlan) <= indexOf(planHierarchy, requiredPlan)

\* planHierarchy.indexOf(userPlan) < planHierarchy.indexOf(requiredPlan)
PlanBelow(userPlan, requiredPlan) ==
    indexOf(planHierarchy, userPlan) < indexOf(planHierarchy, requiredPlan)

----------------------------------------------------------------------------
(* The watch history array.                                                *)

\* The history a viewer has after progress reports on HistoryCap earlier contents
\* (ids 101, 102, ...), the most recent first; the sessions of those earlier
\* reports are addressed by no request of the model and are left out of `sessions`.
PastLedger ==
    [ i \in 1..HistoryCap |->
        [ contentId |-> PastContent(i), watchedAt |-> 0 - i,
          progress |-> <<5000, 100>>, completed |-> FALSE ] ]

\* The sessions behind the first n entries of PastLedger, in insertion order (the
\* one watched longest ago first): each stands at 50 of 100 seconds and is open.
PastSessions(n) ==
    [ k \in 1..n |->
        [ userId |-> "v1", contentId |-> PastContent(n + 1 - k), episodeId |-> NoEpisode,
          currentTime |-> 50, duration |-> 100, percentage |-> <<5000, 100>>,
          completed |-> FALSE, lastUpdated |-> k - n - 1, sessionDuration |-> 0 ] ]

ContentIds(h) == [ i \in 1..Len(h) |-> h[i].contentId ]

Take(s, n) == IF Len(s) <= n THEN s ELSE SubSeq(s, 1, n)

\* an upsert that does not remove the stale entry
PullNothing(h, contentId) == h

\* $pull: { watchHistory: { contentId } }
Pull(h, contentId) == SelectSeq(h, LAMBDA e : e.contentId # contentId)

\* a push that inserts at the head and keeps everything
PushUncapped(h, entry) == <<entry>> \o h

\* a push without $position: the entry is appended, then the array is cut
PushAtTail(h, entry) == Take(h \o <<entry>>, HistoryCap)

\* $push: { watchHistory: { $each: [entry], $position: 0, $slice: 100 } }
Push(h, entry) == Take(<<entry>> \o h, HistoryCap)

\* an update that adds a completed entry when the ledger holds none for the content
SetCompletedUpsert(h, contentId) ==
    IF \E i \in 1..Len(h) : h[i].contentId = contentId
    THEN [ i \in 1..Len(h) |->
            IF h[i].contentId = contentId
            THEN [h[i] EXCEPT !.completed = TRUE, !.progress = <<100, 1>>]
            ELSE h[i] ]
    ELSE <<[ contentId |-> contentId, watchedAt |-> now, progress |-> <<100, 1>>,
             completed |-> TRUE ]>> \o h

\* $set on watchHistory.$[elem] with arrayFilters elem.contentId = contentId
SetCompleted(h, contentId) ==
    [ i \in 1..Len(h) |->
        IF h[i].contentId = contentId
        THEN [h[i] EXCEPT !.completed = TRUE, !.progress = <<100, 1>>]
        ELSE h[i] ]

\* history: the contents of a viewer in the order of their last upsert
Touch(r, contentId) == <<contentId>> \o SelectSeq(r, LAMBDA c : c # contentId)

----------------------------------------------------------------------------
(* Handler-local state.                                                    *)

NoReq == [ op |-> "none", viewer |-> "v1", sessionId |-> NoSession, contentId |-> 0,
           episodeId |-> NoEpisode, currentTime |-> 0, duration |-> 0 ]
NoDoc == [ id |-> NoSession, rec |-> playbackSessionSchema("v1", 0, NoEpisode, 0, 0, 0) ]
NoCall == [ op |-> "none", status |-> "none", proc |-> 0, viewer |-> "v1", contentId |-> 0,
            episodeId |-> NoEpisode, currentTime |-> 0, duration |-> 0,
            sessionId |-> NoSession, sid |-> NoSession, created |-> FALSE,
            wasCompleted |-> FALSE, hadCompleted |-> FALSE, preLedger |-> <<>>,
            preSessions |-> <<>>, limit |-> 0, picked |-> <<>>, topGenres |-> <<>>,
            basedOn |-> <<>>, subscription |-> subscriptionDefaults ]

\* the sessions of an identity triple (episodeId: episodeId || null)
OfTriple(v, c, e) ==
    { i \in 1..Len(sessions) :
        /\ sessions[i].userId = v
        /\ sessions[i].contentId = c
        /\ sessions[i].episodeId = e }

\* the lookup of startPlayback without completed: false
OpenOfTripleAny(v, c, e) == OfTriple(v, c, e)

\* the sessions of an identity triple with completed: false
OpenOfTriple(v, c, e) == { i \in OfTriple(v, c, e) : ~sessions[i].completed }

Init ==
    /\ sessions = <<>>
    /\ watchHistory \in [Viewers -> {<<>>, PastLedger}]
    /\ watchHistory["v2"] = <<>>
    /\ recency = [v \in Viewers |-> ContentIds(watchHistory[v])]
    /\ now = 0
    /\ pc = [p \in Procs |-> "idle"]
    /\ req = [p \in Procs |-> NoReq]
    /\ doc = [p \in Procs |-> NoDoc]
    /\ watchlist = [v \in Viewers |-> <<>>]
    /\ views = InitialViews
    /\ subscription = InitialSubscription
    /\ profiles = InitialProfiles
    /\ user = [p \in Procs |-> NoUser]
    /\ last = NoCall
    /\ reached = {}

\* a viewer who has watched PastSessionCount contents half way and holds a
\* session and a history entry for each
LibraryInit ==
    /\ sessions = PastSessions(PastSessionCount)
    /\ watchHistory = [v \in Viewers |->
                        IF v = "v1" THEN SubSeq(PastLedger, 1, PastSessionCount) ELSE <<>>]
    /\ recency = [v \in Viewers |-> ContentIds(watchHistory[v])]
    /\ now = 0
    /\ pc = [p \in Procs |-> "idle"]
    /\ req = [p \in Procs |-> NoReq]
    /\ doc = [p \in Procs |-> NoDoc]
    /\ watchlist = [v \in Viewers |-> <<>>]
    /\ views = InitialViews
    /\ subscription = InitialSubscription
    /\ profiles = InitialProfiles
    /\ user = [p \in Procs |-> NoUser]
    /\ last = NoCall
    /\ reached = {}

\* the watchlists a viewer may hold: empty, two catalog contents, and a content
\* watched before together with an id the catalog no longer holds
Watchlists == { <<>>, <<4, 2>>, <<PastContent(6), Unresolved>> }

\* a viewer who has watched nothing, two, or PastSessionCount contents half way,
\* the one watched last marked completed or not
RecInit ==
    /\ \E n \in {0, 2, PastSessionCount}, done \in BOOLEAN :
        /\ sessions = [ k \in 1..n |->
                        IF done /\ k = n
                        THEN [ PastSessions(n)[k] EXCEPT !.completed = TRUE,
                                                         !.percentage = <<100, 1>> ]
                        ELSE PastSessions(n)[k] ]
        /\ watchHistory = [v \in Viewers |->
                            IF v = "v1"
                            THEN [ k \in 1..n |->
                                    IF done /\ k = 1
                                    THEN [ PastLedger[k] EXCEPT !.completed = TRUE,
                                                                !.progress = <<100, 1>> ]
                                    ELSE PastLedger[k] ]
                            ELSE <<>>]
    /\ watchlist \in [Viewers -> Watchlists]
    /\ watchlist["v2"] = <<>>
    /\ views = InitialViews
    /\ subscription = InitialSubscription
    /\ profiles = InitialProfiles
    /\ user = [p \in Procs |-> NoUser]
    /\ recency = [v \in Viewers |-> ContentIds(watchHistory[v])]
    /\ now = 0
    /\ pc = [p \in Procs |-> "idle"]
    /\ req = [p \in Procs |-> NoReq]
    /\ doc = [p \in Procs |-> NoDoc]
    /\ last = NoCall
    /\ reached = {}

\* the id of a content that deleteContent removed after it was watched
RemovedContent(i) == PastContent(CatalogPast + i)

\* a viewer with GonePastCount earlier reports: the contents in `gone` were
\* deleted since, and the content watched last was completed or not
GoneInit ==
    /\ \E gone \in { {1}, 1..GonePastCount }, done \in BOOLEAN :
        LET contentAt(k) == IF k \in gone THEN RemovedContent(k) ELSE PastContent(k)
            n == GonePastCount
        IN  /\ sessions = [ k \in 1..n |->
                            [ PastSessions(n)[k] EXCEPT
                                !.contentId = contentAt(n + 1 - k),
                                !.completed = done /\ k = n,
                                !.percentage = IF done /\ k = n THEN <<100, 1>> ELSE @ ] ]
            /\ watchHistory = [v \in Viewers |->
                                IF v = "v1"
                                THEN [ k \in 1..n |->
                                        [ PastLedger[k] EXCEPT
                                            !.contentId = contentAt(k),
                                            !.completed = done /\ k = 1,
                                            !.progress = IF done /\ k = 1 THEN <<100, 1>> ELSE @ ] ]
                                ELSE <<>>]
    /\ watchlist \in [Viewers -> Watchlists]
    /\ watchlist["v2"] = <<>>
    /\ views = InitialViews
    /\ subscription = InitialSubscription
    /\ profiles = InitialProfiles
    /\ user = [p \in Procs |-> NoUser]
    /\ recency = [v \in Viewers |-> ContentIds(watchHistory[v])]
    /\ now = 0
    /\ pc = [p \in Procs |-> "idle"]
    /\ req = [p \in Procs |-> NoReq]
    /\ doc = [p \in Procs |-> NoDoc]
    /\ last = NoCall
    /\ reached = {}

\* a viewer with ReadPastCount earlier reports and any of the watchlists
ReadInit ==
    /\ sessions = PastSessions(ReadPastCount)
    /\ watchHistory = [v \in Viewers |->
                        IF v = "v1" THEN SubSeq(PastLedger, 1, ReadPastCount) ELSE <<>>]
    /\ watchlist \in [Viewers -> Watchlists]
    /\ watchlist["v2"] = <<>>
    /\ views = InitialViews
    /\ subscription = InitialSubscription
    /\ profiles = InitialProfiles
    /\ user = [p \in Procs |-> NoUser]
    /\ recency = [v \in Viewers |-> ContentIds(watchHistory[v])]
    /\ now = 0
    /\ pc = [p \in Procs |-> "idle"]
    /\ req = [p \in Procs |-> NoReq]
    /\ doc = [p \in Procs |-> NoDoc]
    /\ last = NoCall
    /\ reached = {}

\* a viewer with one session, open at 50 %, and its entry in the ledger
RaceInit ==
    /\ sessions = PastSessions(1)
    /\ watchHistory = [v \in Viewers |-> IF v = "v1" THEN SubSeq(PastLedger, 1, 1) ELSE <<>>]
    /\ watchlist = [v \in Viewers |-> <<>>]
    /\ views = InitialViews
    /\ subscription = InitialSubscription
    /\ profiles = InitialProfiles
    /\ user = [p \in Procs |-> NoUser]
    /\ recency = [v \in Viewers |-> ContentIds(watchHistory[v])]
    /\ now = 0
    /\ pc = [p \in Procs |-> "idle"]
    /\ req = [p \in Procs |-> NoReq]
    /\ doc = [p \in Procs |-> NoDoc]
    /\ last = NoCall
    /\ reached = {}

\* a user with one profile, or with StartProfiles profiles, each created by a
\* createProfile call: ids 1..n, the version key at n
ProfileInit ==
    /\ sessions = <<>>
    /\ watchHistory = [v \in Viewers |-> <<>>]
    /\ watchlist = [v \in Viewers |-> <<>>]
    /\ views = InitialViews
    /\ subscription = InitialSubscription
    /\ \E n \in {1, StartProfiles} :
         profiles = [ v \in Viewers |->
                        IF v = "v1"
                        THEN [ list |-> [i \in 1..n |-> i], version |-> n, made |-> n ]
                        ELSE InitialProfiles[v] ]
    /\ user = [p \in Procs |-> NoUser]
    /\ recency = [v \in Viewers |-> <<>>]
    /\ now = 0
    /\ pc = [p \in Procs |-> "idle"]
    /\ req = [p \in Procs |-> NoReq]
    /\ doc = [p \in Procs |-> NoDoc]
    /\ last = NoCall
    /\ reached = {}

\* `last` is kept where h holds (the sequential specification): it follows the
\* call that started last, and a handler notes its own call only
Start(h, call) == IF h THEN call ELSE last
Note(h, p, call) == IF h /\ last.proc = p THEN call ELSE last

Respond(p) ==
    /\ pc' = [pc EXCEPT ![p] = "idle"]
    /\ req' = [req EXCEPT ![p] = NoReq]
    /\ doc' = [doc EXCEPT ![p] = NoDoc]

----------------------------------------------------------------------------
(* updateProgress: POST /api/playback/progress                              *)

\* findById(sessionId) when the request carries a session id, else findOne by
\* the identity triple, completed or not
UpFind(p, in) ==
    \E v \in in.viewers, sessionId \in in.sessionIds, c \in in.contents,
       e \in in.episodes, currentTime \in in.currentTimes, duration \in in.durations :
        LET found == IF sessionId # NoSession
                     THEN IF sessionId \in 1..Len(sessions) THEN sessionId ELSE NoSession
                     ELSE FirstOf(OfTriple(v, c, e))
        IN  /\ pc[p] = "idle"
            /\ pc' = [pc EXCEPT ![p] = "up_write"]
            /\ req' = [req EXCEPT ![p] =
                        [ op |-> "updateProgress", viewer |-> v, sessionId |-> sessionId,
                          contentId |-> c, episodeId |-> e,
                          currentTime |-> currentTime, duration |-> duration ]]
            /\ doc' = [doc EXCEPT ![p] =
                        IF found = NoSession THEN NoDoc
                        ELSE [ id |-> found, rec |-> sessions[found] ]]
            /\ last' = Start(in.hist,
                       [ op |-> "updateProgress", status |-> "running", proc |-> p,
                         viewer |-> v, contentId |-> c, episodeId |-> e,
                         currentTime |-> currentTime, duration |-> duration,
                         sessionId |-> sessionId, sid |-> found,
                         created |-> (found = NoSession),
                         wasCompleted |-> (found # NoSession /\ sessions[found].completed),
                         hadCompleted |-> (\E i \in OfTriple(v, c, e) : sessions[i].completed),
                         preLedger |-> watchHistory[v], preSessions |-> sessions ])
            /\ UNCHANGED <<sessions, watchHistory, now, recency, reached, watchlist, views, subscription, profiles, user>>

\* an update that leaves the duration of the session as it is
UpdateExistingKeepsDuration(d, currentTime, duration) ==
    LET d1 == [d EXCEPT !.currentTime = currentTime]
    IN  [d1 EXCEPT !.sessionDuration =
                    @ + (currentTime - (IF d1.currentTime # 0 THEN d1.currentTime ELSE 0))]

\* the increment taken against the position the session had when it was read
UpdateExistingDeltaFirst(d, currentTime, duration) ==
    LET d1 == [d EXCEPT !.sessionDuration =
                        @ + (currentTime - (IF d.currentTime # 0 THEN d.currentTime ELSE 0))]
        d2 == [d1 EXCEPT !.currentTime = currentTime]
    IN  [d2 EXCEPT !.duration = duration]

\* the three assignments to the session found, in the order the handler makes them
UpdateExisting(d, currentTime, duration) ==
    LET d1 == [d EXCEPT !.currentTime = currentTime]
        d2 == [d1 EXCEPT !.duration = duration]
    IN  [d2 EXCEPT !.sessionDuration =
                    @ + (currentTime - (IF d2.currentTime # 0 THEN d2.currentTime ELSE 0))]

\* PlaybackSession.create of a session not found, or session.save() of the one found
UpWrite(p, in) ==
    LET r == req[p]
        t == now + 1
        after == IF doc[p].id = NoSession
                 THEN Create(r.viewer, r.contentId, r.episodeId, r.currentTime, r.duration, t)
                 ELSE PreSave(UpdateExisting(doc[p].rec, r.currentTime, r.duration), t)
        id == IF doc[p].id = NoSession THEN Len(sessions) + 1 ELSE doc[p].id
    IN  /\ pc[p] = "up_write"
        /\ now < MaxNow
        /\ doc[p].id = NoSession => Len(sessions) < in.past + MaxSessions
        /\ now' = t
        /\ sessions' = IF doc[p].id = NoSession
                       THEN Append(sessions, after)
                       ELSE [sessions EXCEPT ![id] = SaveDelta(@, doc[p].rec, after)]
        /\ doc' = [doc EXCEPT ![p] = [ id |-> id, rec |-> after ]]
        /\ reached' = IF after.duration > 0 /\ PctGE(after.percentage, CompletedAt)
                      THEN reached \cup {id} ELSE reached
        /\ last' = Note(in.hist, p, [last EXCEPT !.sid = id])
        /\ pc' = [pc EXCEPT ![p] = "up_pull"]
        /\ UNCHANGED <<watchHistory, req, recency, watchlist, views, subscription, profiles, user>>

\* User.findByIdAndUpdate with $pull
UpPull(p, in) ==
    /\ pc[p] = "up_pull"
    /\ watchHistory' = [watchHistory EXCEPT ![req[p].viewer] = Pull(@, req[p].contentId)]
    /\ pc' = [pc EXCEPT ![p] = "up_push"]
    /\ UNCHANGED <<sessions, now, req, doc, last, recency, reached, watchlist, views, subscription, profiles, user>>

\* an entry that leaves completed to the default of the schema
HistoryEntryDefault(contentId, session, t) ==
    [ contentId |-> contentId, watchedAt |-> t,
      progress |-> session.percentage, completed |-> FALSE ]

\* the entry pushed: contentId of the request, Date.now(), and percentage and
\* completed of the session document the handler holds
HistoryEntry(contentId, session, t) ==
    [ contentId |-> contentId, watchedAt |-> t,
      progress |-> session.percentage, completed |-> session.completed ]

\* User.findByIdAndUpdate with $push of the snapshot of the in-memory session,
\* then the response
UpPush(p, in) ==
    LET r == req[p]
        t == now + 1
        entry == HistoryEntry(r.contentId, doc[p].rec, t)
    IN  /\ pc[p] = "up_push"
        /\ now < MaxNow
        /\ now' = t
        /\ watchHistory' = [watchHistory EXCEPT ![r.viewer] = Push(@, entry)]
        /\ recency' = [recency EXCEPT ![r.viewer] = Touch(@, r.contentId)]
        /\ last' = Note(in.hist, p, [last EXCEPT !.status = "ok"])
        /\ Respond(p)
        /\ UNCHANGED <<sessions, reached, watchlist, views, subscription, profiles, user>>

----------------------------------------------------------------------------
(* startPlayback: POST /api/playback/start                                  *)

\* Content.findById, the plan check and the lookup of an open session.  The
\* catalog is constant and req.user was loaded by authenticate just before, so
\* the reads are one step.
SpFind(p, in) ==
    \E v \in in.viewers, c \in in.startContents \cup {Unresolved}, e \in in.episodes,
       duration \in in.durations :
        LET call == [ NoCall EXCEPT !.op = "startPlayback", !.proc = p, !.viewer = v,
                        !.contentId = c, !.episodeId = e, !.duration = duration,
                        !.preLedger = watchHistory[v], !.preSessions = sessions,
                        !.subscription = subscription[v] ]
            found == FirstOf(OpenOfTriple(v, c, e))
        IN  /\ pc[p] = "idle"
            /\ IF ~ContentFindById(c).found
               THEN /\ last' = Start(in.hist, [call EXCEPT !.status = "ContentNotFound"])
                    /\ UNCHANGED <<pc, req, doc>>
               ELSE IF PlanBelow(subscription[v].plan,
                                 ContentFindById(c).content.subscriptionRequired)
               THEN /\ last' = Start(in.hist, [call EXCEPT !.status = "AccessDenied"])
                    /\ UNCHANGED <<pc, req, doc>>
               ELSE IF found # NoSession
               THEN /\ last' = Start(in.hist, [call EXCEPT !.status = "ok", !.sid = found,
                                            !.currentTime = sessions[found].currentTime])
                    /\ UNCHANGED <<pc, req, doc>>
               ELSE /\ last' = Start(in.hist, [call EXCEPT !.status = "running", !.created = TRUE])
                    /\ pc' = [pc EXCEPT ![p] = "sp_create"]
                    /\ req' = [req EXCEPT ![p] =
                                [ NoReq EXCEPT !.op = "startPlayback", !.viewer = v,
                                    !.contentId = c, !.episodeId = e, !.duration = duration ]]
                    /\ UNCHANGED doc
            /\ UNCHANGED <<sessions, watchHistory, now, recency, reached, watchlist, views, subscription, profiles, user>>

\* PlaybackSession.create with currentTime 0, then the response
SpCreate(p, in) ==
    LET r == req[p]
        t == now + 1
        new == Create(r.viewer, r.contentId, r.episodeId, 0, r.duration, t)
    IN  /\ pc[p] = "sp_create"
        /\ now < MaxNow
        /\ Len(sessions) < in.past + MaxSessions
        /\ now' = t
        /\ sessions' = Append(sessions, new)
        /\ reached' = IF new.duration > 0 /\ PctGE(new.percentage, CompletedAt)
                      THEN reached \cup {Len(sessions) + 1} ELSE reached
        /\ last' = Note(in.hist, p, [last EXCEPT !.status = "ok", !.sid = Len(sessions) + 1,
                                        !.currentTime = new.currentTime])
        /\ Respond(p)
        /\ UNCHANGED <<watchHistory, recency, watchlist, views, subscription, profiles, user>>

----------------------------------------------------------------------------
(* markCompleted: POST /api/playback/complete                               *)

\* an update that sets the percentage to 100 and leaves the completed flag
McSessionPercentageOnly(p, in) ==
    \E v \in in.viewers, c \in in.contents, e \in in.episodes :
        LET found == FirstOf(OfTriple(v, c, e))
        IN  /\ pc[p] = "idle"
            /\ sessions' = IF found = NoSession THEN sessions
                           ELSE [sessions EXCEPT ![found].percentage = <<100, 1>>]
            /\ pc' = [pc EXCEPT ![p] = "mc_history"]
            /\ req' = [req EXCEPT ![p] =
                        [ NoReq EXCEPT !.op = "markCompleted", !.viewer = v,
                            !.contentId = c, !.episodeId = e ]]
            /\ last' = Start(in.hist,
                         [ NoCall EXCEPT !.op = "markCompleted", !.status = "running",
                           !.proc = p, !.viewer = v, !.contentId = c, !.episodeId = e,
                           !.sid = found,
                           !.wasCompleted = (found # NoSession /\ sessions[found].completed),
                           !.preLedger = watchHistory[v], !.preSessions = sessions ])
            /\ UNCHANGED <<watchHistory, now, doc, recency, reached, watchlist, views, subscription, profiles, user>>

\* PlaybackSession.findOneAndUpdate: no hook runs, lastUpdated is not touched
McSession(p, in) ==
    \E v \in in.viewers, c \in in.contents, e \in in.episodes :
        LET found == FirstOf(OfTriple(v, c, e))
        IN  /\ pc[p] = "idle"
            /\ sessions' = IF found = NoSession THEN sessions
                           ELSE [sessions EXCEPT ![found].completed = TRUE,
                                                 ![found].percentage = <<100, 1>>]
            /\ pc' = [pc EXCEPT ![p] = "mc_history"]
            /\ req' = [req EXCEPT ![p] =
                        [ NoReq EXCEPT !.op = "markCompleted", !.viewer = v,
                            !.contentId = c, !.episodeId = e ]]
            /\ last' = Start(in.hist,
                         [ NoCall EXCEPT !.op = "markCompleted", !.status = "running",
                           !.proc = p, !.viewer = v, !.contentId = c, !.episodeId = e,
                           !.sid = found,
                           !.wasCompleted = (found # NoSession /\ sessions[found].completed),
                           !.preLedger = watchHistory[v], !.preSessions = sessions ])
            /\ UNCHANGED <<watchHistory, now, doc, recency, reached, watchlist, views, subscription, profiles, user>>

\* User.findByIdAndUpdate with $set on the entries of the content, then the response
McHistory(p, in) ==
    /\ pc[p] = "mc_history"
    /\ watchHistory' = [watchHistory EXCEPT ![req[p].viewer] =
                            SetCompleted(@, req[p].contentId)]
    /\ last' = Note(in.hist, p, [last EXCEPT !.status = "ok"])
    /\ Respond(p)
    /\ UNCHANGED <<sessions, now, recency, reached, watchlist, views, subscription, profiles, user>>

----------------------------------------------------------------------------
(* clearWatchHistory: DELETE /api/users/history                             *)

ClearWatchHistory(p, in) ==
    \E v \in in.viewers :
        /\ pc[p] = "idle"
        /\ watchHistory' = [watchHistory EXCEPT ![v] = <<>>]
        /\ recency' = [recency EXCEPT ![v] = <<>>]
        /\ last' = Start(in.hist,
                     [ NoCall EXCEPT !.op = "clearWatchHistory", !.status = "ok",
                       !.proc = p, !.viewer = v, !.preLedger = watchHistory[v],
                       !.preSessions = sessions ])
        /\ UNCHANGED <<sessions, now, pc, req, doc, reached, watchlist, views, subscription, profiles, user>>

----------------------------------------------------------------------------
(* A store call that rejects.                                              *)

\* The await at which the handler is suspended throws (the store is unreachable,
\* the operation times out): the catch block passes the error to next(error),
\* which answers the request.  Nothing the handler wrote before is taken back.
Fail(p, in) ==
    /\ pc[p] \in {"up_write", "up_pull", "up_push", "sp_create", "mc_history"}
    /\ last' = Note(in.hist, p, [last EXCEPT !.status = "failed"])
    /\ Respond(p)
    /\ UNCHANGED <<sessions, watchHistory, now, recency, reached, watchlist, views, subscription, profiles, user>>

----------------------------------------------------------------------------
(* The read handlers, as functions of the store.                           *)

\* the lookup without completed: false
getResumePointAny(v, c, e) ==
    LET M == { i \in 1..Len(sessions) :
                 /\ sessions[i].userId = v
                 /\ sessions[i].contentId = c
                 /\ (e # NoEpisode => sessions[i].episodeId = e) }
        s == FirstOf({ i \in M : \A j \in M : sessions[j].lastUpdated <= sessions[i].lastUpdated })
    IN  IF M = {}
        THEN [ hasResumePoint |-> FALSE, currentTime |-> 0, percentage |-> <<0, 1>>,
               sessionId |-> NoSession ]
        ELSE [ hasResumePoint |-> TRUE, currentTime |-> sessions[s].currentTime,
               percentage |-> sessions[s].percentage, sessionId |-> s ]

\* the lookup with the sort direction reversed: the least recently updated session
getResumePointOldest(v, c, e) ==
    LET M == { i \in 1..Len(sessions) :
                 /\ sessions[i].userId = v
                 /\ sessions[i].contentId = c
                 /\ ~sessions[i].completed
                 /\ (e # NoEpisode => sessions[i].episodeId = e) }
        s == FirstOf({ i \in M : \A j \in M : sessions[j].lastUpdated >= sessions[i].lastUpdated })
    IN  IF M = {}
        THEN [ hasResumePoint |-> FALSE, currentTime |-> 0, percentage |-> <<0, 1>>,
               sessionId |-> NoSession ]
        ELSE [ hasResumePoint |-> TRUE, currentTime |-> sessions[s].currentTime,
               percentage |-> sessions[s].percentage, sessionId |-> s ]

\* getResumePoint: the open session of the viewer and content (and of the
\* episode when the query names one) with the greatest lastUpdated
getResumePoint(v, c, e) ==
    LET M == { i \in 1..Len(sessions) :
                 /\ sessions[i].userId = v
                 /\ sessions[i].contentId = c
                 /\ ~sessions[i].completed
                 /\ (e # NoEpisode => sessions[i].episodeId = e) }
        s == FirstOf({ i \in M : \A j \in M : sessions[j].lastUpdated <= sessions[i].lastUpdated })
    IN  IF M = {}
        THEN [ hasResumePoint |-> FALSE, currentTime |-> 0, percentage |-> <<0, 1>>,
               sessionId |-> NoSession ]
        ELSE [ hasResumePoint |-> TRUE, currentTime |-> sessions[s].currentTime,
               percentage |-> sessions[s].percentage, sessionId |-> s ]

\* the ids of the set S of sessions in the order of sort({ lastUpdated: -1 })
SortByLastUpdated(S) ==
    LET rank == [ i \in S |->
                    1 + Cardinality({ j \in S :
                            \/ sessions[j].lastUpdated > sessions[i].lastUpdated
                            \/ sessions[j].lastUpdated = sessions[i].lastUpdated /\ j < i }) ]
        sorted == [ k \in 1..Cardinality(S) |-> CHOOSE i \in S : rank[i] = k ]
    IN  SubSeq(sorted, 1, Cardinality(S))

\* the query of getContinueWatching: open sessions of the user above 5 % and below 90 %
InProgress(v) ==
    { i \in 1..Len(sessions) :
        /\ sessions[i].userId = v
        /\ ~sessions[i].completed
        /\ PctGT(sessions[i].percentage, 5)
        /\ PctLT(sessions[i].percentage, CompletedAt) }

\* the list without the .limit(20)
getContinueWatchingUncapped(v, limit) == SortByLastUpdated(InProgress(v))

\* getContinueWatching: the handler reads nothing from the request but the user;
\* limit stands for a limit the caller puts in the query string
getContinueWatching(v, limit) ==
    Take(SortByLastUpdated(InProgress(v)), ContinueWatchingLimit)

\* Array.prototype.sort by watchedAt descending.  The sort is stable: an entry
\* goes behind the later ones and behind the equally late ones that precede it.
SortByWatchedAt(h) ==
    LET n == Len(h)
        rank == [ i \in 1..n |->
                    1 + Cardinality({ j \in 1..n :
                            \/ h[j].watchedAt > h[i].watchedAt
                            \/ h[j].watchedAt = h[i].watchedAt /\ j < i }) ]
        ordered == \A i \in 1..(n - 1) : h[i].watchedAt >= h[i + 1].watchedAt
    IN  IF ordered THEN h     \* what the stable sort returns for an ordered array
        ELSE [ k \in 1..n |-> h[CHOOSE i \in 1..n : rank[i] = k] ]

Min(a, b) == IF a <= b THEN a ELSE b

\* getWatchHistory: one page of the sorted history and the total
getWatchHistory(v, page, limit) ==
    LET sorted == SortByWatchedAt(watchHistory[v])
    IN  [ data |-> SubSeq(sorted, (page - 1) * limit + 1, Min(page * limit, Len(sorted))),
          total |-> Len(watchHistory[v]) ]

----------------------------------------------------------------------------
(* getPersonalizedRecommendations: GET /api/recommendations/personalized   *)

TopGenreCount == 5              \* .slice(0, 5) of the sorted genres
BasedOnCount == 3               \* topGenres.slice(0, 3) of the response
WatchlistWeight == 4            \* the flat 2 of a watchlist item, in halves

\* a weight that keeps falling below 1
WeightUnfloored(index) == 20 - index

\* Math.max(1, 10 - index * 0.5), in halves so that the weights stay whole
Weight(index) == IF 20 - index >= 2 THEN 20 - index ELSE 2

\* genreScores[genre] = (genreScores[genre] || 0) + weight.  The object keeps its
\* keys in the order they were first assigned: a sequence of <<genre, score>>.
AddScore(scores, genre, weight) ==
    IF \E k \in 1..Len(scores) : scores[k][1] = genre
    THEN SubSeq([ k \in 1..Len(scores) |->
                    IF scores[k][1] = genre THEN <<genre, scores[k][2] + weight>>
                    ELSE scores[k] ],
                1, Len(scores))
    ELSE Append(scores, <<genre, weight>>)

RECURSIVE AddGenres(_, _, _)
\* genres.forEach(genre => ...)
AddGenres(scores, genres, weight) ==
    IF genres = <<>> THEN scores
    ELSE AddGenres(AddScore(scores, Head(genres), weight), Tail(genres), weight)

RECURSIVE ScoreHistory(_, _, _)
\* user.watchHistory.forEach((item, index) => ...) from entry k on, whose index is
\* k - 1; an entry whose contentId populate left null is passed over.  The guard
\* Len(next) >= 0 is always true: it has the scores after entry k evaluated
\* before entry k + 1 is taken up, as the loop does.
ScoreHistory(scores, h, k) ==
    IF k > Len(h) THEN scores
    ELSE LET item == ContentFindById(h[k].contentId)
             next == IF item.found
                     THEN AddGenres(scores, item.content.genres, Weight(k - 1))
                     ELSE scores
         IN  IF Len(next) >= 0 THEN ScoreHistory(next, h, k + 1) ELSE next

RECURSIVE ScoreWatchlist(_, _, _)
\* user.watchlist.forEach(item => ...) from item k on
ScoreWatchlist(scores, w, k) ==
    IF k > Len(w) THEN scores
    ELSE LET item == ContentFindById(w[k])
         IN  ScoreWatchlist(IF item.found
                            THEN AddGenres(scores, item.content.genres, WatchlistWeight)
                            ELSE scores,
                            w, k + 1)

genreScores(v) == ScoreWatchlist(ScoreHistory(<<>>, watchHistory[v], 1), watchlist[v], 1)

\* a sort that tells equal scores apart by the name of the genre
SortByScoreThenName(scores) ==
    LET n == Len(scores)
        before(a, b) == \E m \in 1..Len(GenreNames) :
                            /\ GenreNames[m] = a
                            /\ \A q \in 1..m : GenreNames[q] # b
        rank == SubSeq([ i \in 1..n |->
                    1 + Cardinality({ j \in 1..n :
                            \/ scores[j][2] > scores[i][2]
                            \/ scores[j][2] = scores[i][2] /\ before(scores[j][1], scores[i][1]) }) ], 1, n)
        sorted == [ k \in 1..n |-> scores[CHOOSE i \in 1..n : rank[i] = k] ]
    IN  SubSeq(sorted, 1, n)

\* Object.entries(genreScores).sort((a, b) => b[1] - a[1]): descending by score,
\* stable, so entries of equal score keep the order of the keys
SortByScore(scores) ==
    LET n == Len(scores)
        rank == SubSeq([ i \in 1..n |->
                    1 + Cardinality({ j \in 1..n :
                            \/ scores[j][2] > scores[i][2]
                            \/ scores[j][2] = scores[i][2] /\ j < i }) ], 1, n)
        sorted == [ k \in 1..n |-> scores[CHOOSE i \in 1..n : rank[i] = k] ]
    IN  SubSeq(sorted, 1, n)

\* .slice(0, 5).map(([genre]) => genre)
topGenres(v) ==
    LET sorted == SortByScore(genreScores(v))
    IN  [ k \in 1..Min(TopGenreCount, Len(sorted)) |-> sorted[k][1] ]

\* user.watchHistory.filter(h => h.completed).map(h => h.contentId?._id): the ids
\* of the completed entries that populate resolved (the others map to undefined)
watchedIds(v) ==
    { watchHistory[v][k].contentId : k \in { k \in 1..Len(watchHistory[v]) :
            /\ watchHistory[v][k].completed
            /\ ContentFindById(watchHistory[v][k].contentId).found } }

\* order of two sort keys, compared component by component
KeyLess(a, b) ==
    \E m \in 1..Len(a) : a[m] < b[m] /\ \A q \in 1..(m - 1) : a[q] = b[q]

\* the ids of S in ascending order of key[id]; the keys end in the id, the order
\* in which the store returns documents that the sort fields do not tell apart
SortByKey(S, key) ==
    LET Member(c) == c \in S
        ids == SelectSeq(CatalogIds, Member)
        n == Len(ids)
        rank == SubSeq([ i \in 1..n |->
                          1 + Cardinality({ j \in 1..n : KeyLess(key[ids[j]], key[ids[i]]) }) ],
                       1, n)
        sorted == [ k \in 1..n |-> ids[CHOOSE i \in 1..n : rank[i] = k] ]
    IN  SubSeq(sorted, 1, n)

\* cursor.limit(n): no limit for 0, the magnitude for a negative number
Limit(s, n) == IF n = 0 THEN s ELSE Take(s, IF n < 0 THEN 0 - n ELSE n)

\* status: 'published' with _id: { $nin: excluded }
PublishedExcept(excluded) ==
    { c \in DOMAIN Catalog : Catalog[c].status = "published" /\ c \notin excluded }

\* the first query: genres: { $in: topGenres }, sort({ views: -1, imdbRating: -1 })
PrimaryRecommendations(v, limit) ==
    LET top == topGenres(v)
        S == { c \in PublishedExcept(watchedIds(v)) :
                 \E g \in 1..Len(Catalog[c].genres), t \in 1..Len(top) :
                     Catalog[c].genres[g] = top[t] }
        key == [ c \in S |-> <<0 - views[c], 0 - Catalog[c].imdbRating, c>> ]
    IN  IF Len(top) > 0 THEN Limit(SortByKey(S, key), limit) ELSE <<>>

\* a second query that leaves out the $nin of the contents already selected
AdditionalRecsRepeating(v, limit, recommendations) ==
    LET S == PublishedExcept(watchedIds(v))
        key == [ c \in S |-> <<0 - views[c], 0 - Catalog[c].createdAt, c>> ]
    IN  IF Len(recommendations) < limit
        THEN Limit(SortByKey(S, key), limit - Len(recommendations))
        ELSE <<>>

\* a second query that leaves out the $nin of the contents watched
AdditionalRecsUnfiltered(v, limit, recommendations) ==
    LET S == PublishedExcept({ recommendations[k] : k \in 1..Len(recommendations) })
        key == [ c \in S |-> <<0 - views[c], 0 - Catalog[c].createdAt, c>> ]
    IN  IF Len(recommendations) < limit
        THEN Limit(SortByKey(S, key), limit - Len(recommendations))
        ELSE <<>>

\* the second query, made when the first returned fewer than limit:
\* sort({ views: -1, createdAt: -1 }), limit(limit - recommendations.length)
AdditionalRecs(v, limit, recommendations) ==
    LET S == PublishedExcept(watchedIds(v)
                             \cup { recommendations[k] : k \in 1..Len(recommendations) })
        key == [ c \in S |-> <<0 - views[c], 0 - Catalog[c].createdAt, c>> ]
    IN  IF Len(recommendations) < limit
        THEN Limit(SortByKey(S, key), limit - Len(recommendations))
        ELSE <<>>

\* The handler reads the user and the catalog and answers; it writes nothing.
\* `picked` is the list before recommendations.sort(() => Math.random() - 0.5):
\* the response carries the same documents in an order the comparator decides.
GetPersonalizedRecommendations(p, in) ==
    \E v \in in.viewers, limit \in in.limits :
        LET primary == PrimaryRecommendations(v, limit)
            picked == primary \o AdditionalRecs(v, limit, primary)
            top == topGenres(v)
        IN  /\ pc[p] = "idle"
            /\ last' = Start(in.hist,
                         [ NoCall EXCEPT !.op = "getPersonalizedRecommendations",
                           !.status = "ok", !.proc = p, !.viewer = v, !.limit = limit,
                           !.picked = picked, !.topGenres = top,
                           !.basedOn = Take(top, BasedOnCount),
                           !.preLedger = watchHistory[v], !.preSessions = sessions ])
            /\ UNCHANGED <<sessions, watchHistory, now, pc, req, doc, watchlist, views,
                           recency, reached, subscription, profiles, user>>

----------------------------------------------------------------------------
(* getTopPicks: GET /api/recommendations/top-picks                         *)

TopPickGenreCount == 3          \* .slice(0, 3) of the sorted genres
RatingFloor == 7                \* imdbRating: { $gte: 7 }
DefaultGenres == <<"Drama", "Action", "Comedy">>

\* a count that takes an entry whose content is gone by the genres it had
CountHistoryRemembered(counts, h, k) ==
    LET Fold[i \in 0..Len(h)] ==
            IF i = 0 THEN counts ELSE AddGenres(Fold[i - 1], GenresOf(h[i].contentId), 1)
    IN  Fold[Len(h)]

RECURSIVE CountHistory(_, _, _)
\* user.watchHistory.forEach(item => ...): 1 for every genre of every entry whose
\* contentId populate resolved, from entry k on
CountHistory(counts, h, k) ==
    IF k > Len(h) THEN counts
    ELSE LET item == ContentFindById(h[k].contentId)
             next == IF item.found THEN AddGenres(counts, item.content.genres, 1)
                     ELSE counts
         IN  IF Len(next) >= 0 THEN CountHistory(next, h, k + 1) ELSE next

genreCount(v) == CountHistory(<<>>, watchHistory[v], 1)

\* Object.entries(genreCount).sort(...).slice(0, 3).map(([genre]) => genre)
topPickGenres(v) ==
    LET sorted == SortByScore(genreCount(v))
    IN  [ k \in 1..Min(TopPickGenreCount, Len(sorted)) |-> sorted[k][1] ]

\* Content.find({ genres: { $in: ... }, status: 'published', imdbRating: { $gte: 7 } })
\* .sort({ imdbRating: -1, views: -1 }).limit(parseInt(limit))
TopPicks(v, limit) ==
    LET top == IF Len(topPickGenres(v)) > 0 THEN topPickGenres(v) ELSE DefaultGenres
        S == { c \in PublishedExcept({}) :
                 /\ Catalog[c].imdbRating >= RatingFloor
                 /\ \E g \in 1..Len(Catalog[c].genres), t \in 1..Len(top) :
                       Catalog[c].genres[g] = top[t] }
        key == [ c \in S |-> <<0 - Catalog[c].imdbRating, 0 - views[c], c>> ]
    IN  Limit(SortByKey(S, key), limit)

\* The handler reads the user and the catalog and answers; it writes nothing.
GetTopPicks(p, in) ==
    \E v \in in.viewers, limit \in in.limits :
        /\ pc[p] = "idle"
        /\ last' = Start(in.hist,
                     [ NoCall EXCEPT !.op = "getTopPicks",
                       !.status = "ok", !.proc = p, !.viewer = v, !.limit = limit,
                       !.picked = TopPicks(v, limit), !.topGenres = topPickGenres(v),
                       !.preLedger = watchHistory[v], !.preSessions = sessions ])
        /\ UNCHANGED <<sessions, watchHistory, now, pc, req, doc, watchlist, views,
                       recency, reached, subscription, profiles, user>>

----------------------------------------------------------------------------
(* getSimilarContent, getBecauseYouWatched and getContentById              *)

CastNameCount == 3              \* watchedContent.cast.map(c => c.name).slice(0, 3)
MaxViews == 1                   \* views added to a content before the model stops counting

\* two arrays have an element in common: the match of $in on an array path
Overlap(a, b) == \E i \in 1..Len(a), j \in 1..Len(b) : a[i] = b[j]

\* Content.find({ _id: { $ne: contentId }, type: content.type,
\*                genres: { $in: content.genres }, status: 'published' })
\* .sort({ imdbRating: -1, views: -1 }).limit(parseInt(limit))
SimilarContent(contentId, limit) ==
    LET content == Catalog[contentId]
        S == { c \in PublishedExcept({contentId}) :
                 /\ Catalog[c].type = content.type
                 /\ Overlap(Catalog[c].genres, content.genres) }
        key == [ c \in S |-> <<0 - Catalog[c].imdbRating, 0 - views[c], c>> ]
    IN  Limit(SortByKey(S, key), limit)

\* Content.find({ _id: { $ne: contentId }, status: 'published', $or: [ genres $in,
\*                director, 'cast.name' $in first three names ] })
\* .sort({ imdbRating: -1, views: -1 }).limit(parseInt(limit))
BecauseYouWatched(contentId, limit) ==
    LET watchedContent == Catalog[contentId]
        S == { c \in PublishedExcept({contentId}) :
                 \/ Overlap(Catalog[c].genres, watchedContent.genres)
                 \/ Catalog[c].director = watchedContent.director
                 \/ Overlap(Catalog[c].cast, Take(watchedContent.cast, CastNameCount)) }
        key == [ c \in S |-> <<0 - Catalog[c].imdbRating, 0 - views[c], c>> ]
    IN  Limit(SortByKey(S, key), limit)

\* Content.findById, 404 on null, else the query and the answer; nothing is written.
GetSimilarContent(p, in) ==
    \E contentId \in in.startContents \cup {Unresolved}, limit \in in.limits :
        /\ pc[p] = "idle"
        /\ last' = Start(in.hist,
                     IF ContentFindById(contentId).found
                     THEN [ NoCall EXCEPT !.op = "getSimilarContent", !.status = "ok",
                            !.proc = p, !.contentId = contentId, !.limit = limit,
                            !.picked = SimilarContent(contentId, limit),
                            !.preSessions = sessions ]
                     ELSE [ NoCall EXCEPT !.op = "getSimilarContent", !.status = "notFound",
                            !.proc = p, !.contentId = contentId, !.limit = limit,
                            !.preSessions = sessions ])
        /\ UNCHANGED <<sessions, watchHistory, now, pc, req, doc, watchlist, views,
                       recency, reached, subscription, profiles, user>>

\* a handler that counts a view of the content it was asked about
GetBecauseYouWatchedCounting(p, in) ==
    \E v \in in.viewers, contentId \in in.startContents, limit \in in.limits :
        /\ pc[p] = "idle"
        /\ ContentFindById(contentId).found
        /\ views' = [ views EXCEPT ![contentId] = @ + 1 ]
        /\ last' = Start(in.hist,
                     [ NoCall EXCEPT !.op = "getBecauseYouWatched", !.status = "ok",
                       !.proc = p, !.viewer = v, !.contentId = contentId,
                       !.limit = limit, !.picked = BecauseYouWatched(contentId, limit),
                       !.preSessions = sessions ])
        /\ UNCHANGED <<sessions, watchHistory, now, pc, req, doc, watchlist,
                       recency, reached, subscription, profiles, user>>

\* Content.findById, 404 on null, else the query and the answer; nothing is written.
GetBecauseYouWatched(p, in) ==
    \E v \in in.viewers, contentId \in in.startContents \cup {Unresolved},
       limit \in in.limits :
        /\ pc[p] = "idle"
        /\ last' = Start(in.hist,
                     IF ContentFindById(contentId).found
                     THEN [ NoCall EXCEPT !.op = "getBecauseYouWatched", !.status = "ok",
                            !.proc = p, !.viewer = v, !.contentId = contentId,
                            !.limit = limit,
                            !.picked = BecauseYouWatched(contentId, limit),
                            !.preSessions = sessions ]
                     ELSE [ NoCall EXCEPT !.op = "getBecauseYouWatched",
                            !.status = "notFound", !.proc = p, !.viewer = v,
                            !.contentId = contentId, !.limit = limit,
                            !.preSessions = sessions ])
        /\ UNCHANGED <<sessions, watchHistory, now, pc, req, doc, watchlist, views,
                       recency, reached, subscription, profiles, user>>

\* content.views += 1; await content.save(), for a content that was found.  The
\* handler runs alone in the specification that holds it, so that its read and
\* its save are one step.
GetContentById(p, in) ==
    \E contentId \in in.startContents :
        /\ pc[p] = "idle"
        /\ ContentFindById(contentId).found
        /\ views[contentId] < InitialViews[contentId] + MaxViews
        /\ views' = [ views EXCEPT ![contentId] = @ + 1 ]
        /\ last' = Start(in.hist,
                     [ NoCall EXCEPT !.op = "getContentById", !.status = "ok",
                       !.proc = p, !.contentId = contentId, !.preSessions = sessions ])
        /\ UNCHANGED <<sessions, watchHistory, now, pc, req, doc, watchlist,
                       recency, reached, subscription, profiles, user>>

----------------------------------------------------------------------------
(* The subscription: cancelSubscription and the Stripe webhook.            *)

\* subscription.status as customer.subscription.updated reports it; the update
\* runs no validators, so a status outside the schema's enum is stored as sent
StripeStatuses == {"active", "past_due"}

\* User.findById(req.user._id) of cancelSubscription
CsFind(p, in) ==
    \E v \in in.viewers :
        /\ pc[p] = "idle"
        /\ pc' = [pc EXCEPT ![p] = "cs_save"]
        /\ req' = [req EXCEPT ![p] = [ NoReq EXCEPT !.op = "cancelSubscription", !.viewer = v ]]
        /\ user' = [user EXCEPT ![p] =
                      [ NoUser EXCEPT !.viewer = v, !.subscription = subscription[v] ]]
        /\ last' = Start(in.hist,
                     [ NoCall EXCEPT !.op = "cancelSubscription", !.status = "running",
                       !.proc = p, !.viewer = v, !.subscription = subscription[v] ])
        /\ UNCHANGED <<sessions, watchHistory, now, doc, watchlist, views, recency, reached,
                       subscription, profiles>>

\* the assignments to the loaded document and user.save(), which writes the
\* paths whose value changed: without a Stripe subscription the plan becomes
\* free and the status cancelled; with one, stripe.subscriptions.cancel is
\* called and the status alone becomes cancelled
CsSave(p, in) ==
    LET v == user[p].viewer
        u == user[p].subscription
        plan == IF u.stripeSubscriptionId = NoStripe THEN "free" ELSE u.plan
        planWritten == IF plan # u.plan THEN plan ELSE subscription[v].plan
        statusWritten == IF u.status # "cancelled" THEN "cancelled" ELSE subscription[v].status
    IN  /\ pc[p] = "cs_save"
        /\ subscription' = [subscription EXCEPT ![v].plan = planWritten,
                                                  ![v].status = statusWritten]
        /\ last' = Note(in.hist, p, [last EXCEPT !.status = "ok"])
        /\ Respond(p)
        /\ user' = [user EXCEPT ![p] = NoUser]
        /\ UNCHANGED <<sessions, watchHistory, now, watchlist, views, recency, reached, profiles>>

\* handleWebhook, checkout.session.completed: the plan that was paid for
CheckoutCompleted(in) ==
    \E v \in in.viewers, planName \in in.plans :
        /\ subscription' = [subscription EXCEPT ![v] =
                              [ plan |-> planName, status |-> "active",
                                stripeSubscriptionId |-> v ]]
        /\ UNCHANGED <<sessions, watchHistory, now, pc, req, doc, watchlist, views, last,
                       recency, reached, profiles, user>>

\* handleWebhook, customer.subscription.updated, for the user who holds the
\* Stripe subscription
SubscriptionUpdated(in) ==
    \E v \in in.viewers, status \in StripeStatuses :
        /\ subscription[v].stripeSubscriptionId # NoStripe
        /\ subscription' = [subscription EXCEPT ![v].status = status]
        /\ UNCHANGED <<sessions, watchHistory, now, pc, req, doc, watchlist, views, last,
                       recency, reached, profiles, user>>

\* handleWebhook, customer.subscription.deleted
SubscriptionDeleted(in) ==
    \E v \in in.viewers :
        /\ subscription[v].stripeSubscriptionId # NoStripe
        /\ subscription' = [subscription EXCEPT ![v] =
                              [ plan |-> "free", status |-> "expired",
                                stripeSubscriptionId |-> NoStripe ]]
        /\ UNCHANGED <<sessions, watchHistory, now, pc, req, doc, watchlist, views, last,
                       recency, reached, profiles, user>>

----------------------------------------------------------------------------
(* The profiles of a user: createProfile and deleteProfile.                *)

\* User.findById, the limit check and profiles.push, which generates the _id
CpFind(p, in) ==
    \E v \in in.viewers :
        LET stored == profiles[v]
            id == stored.made + 1
            call == [ NoCall EXCEPT !.op = "createProfile", !.proc = p, !.viewer = v ]
        IN  /\ pc[p] = "idle"
            /\ IF Len(stored.list) >= MaxProfiles
               THEN /\ last' = Start(in.hist, [call EXCEPT !.status = "MaxProfiles"])
                    /\ UNCHANGED <<pc, req, user, profiles>>
               ELSE /\ stored.made < StartProfiles + MaxCreated
                    /\ profiles' = [profiles EXCEPT ![v].made = id]
                    /\ pc' = [pc EXCEPT ![p] = "cp_save"]
                    /\ req' = [req EXCEPT ![p] =
                                [ NoReq EXCEPT !.op = "createProfile", !.viewer = v ]]
                    /\ user' = [user EXCEPT ![p] =
                                  [ NoUser EXCEPT !.viewer = v, !.list = Append(stored.list, id),
                                      !.version = stored.version, !.pushed = id,
                                      !.modified = TRUE ]]
                    /\ last' = Start(in.hist, [call EXCEPT !.status = "running"])
            /\ UNCHANGED <<sessions, watchHistory, now, doc, watchlist, views, recency, reached,
                           subscription>>

\* user.save() after a push: $push of the new element onto the stored array and
\* $inc of the version key, which the filter of the update does not name
CpSave(p, in) ==
    LET v == user[p].viewer
    IN  /\ pc[p] = "cp_save"
        /\ profiles' = [profiles EXCEPT ![v].list = Append(@, user[p].pushed),
                                        ![v].version = @ + 1]
        /\ last' = Note(in.hist, p, [last EXCEPT !.status = "ok"])
        /\ Respond(p)
        /\ user' = [user EXCEPT ![p] = NoUser]
        /\ UNCHANGED <<sessions, watchHistory, now, watchlist, views, recency, reached,
                       subscription>>

\* User.findById, the last-profile check and the filter assigned to user.profiles
DpFind(p, in) ==
    \E v \in in.viewers, profileId \in in.profileIds :
        LET stored == profiles[v]
            kept == SelectSeq(stored.list, LAMBDA id : id # profileId)
            call == [ NoCall EXCEPT !.op = "deleteProfile", !.proc = p, !.viewer = v ]
        IN  /\ pc[p] = "idle"
            /\ IF Len(stored.list) <= 1
               THEN /\ last' = Start(in.hist, [call EXCEPT !.status = "LastProfile"])
                    /\ UNCHANGED <<pc, req, user>>
               ELSE /\ pc' = [pc EXCEPT ![p] = "dp_save"]
                    /\ req' = [req EXCEPT ![p] =
                                [ NoReq EXCEPT !.op = "deleteProfile", !.viewer = v ]]
                    /\ user' = [user EXCEPT ![p] =
                                  [ NoUser EXCEPT !.viewer = v, !.list = kept,
                                      !.version = stored.version,
                                      !.modified = (kept # stored.list) ]]
                    /\ last' = Start(in.hist, [call EXCEPT !.status = "running"])
            /\ UNCHANGED <<sessions, watchHistory, now, doc, watchlist, views, recency, reached,
                           subscription, profiles>>

\* user.save() after the array was assigned: nothing is written when the array
\* is as it was loaded; otherwise $set of the whole array under the version the
\* document was loaded with, and a VersionError when the stored version differs
DpSave(p, in) ==
    LET v == user[p].viewer
    IN  /\ pc[p] = "dp_save"
        /\ IF ~user[p].modified
           THEN /\ last' = Note(in.hist, p, [last EXCEPT !.status = "ok"])
                /\ UNCHANGED profiles
           ELSE IF profiles[v].version # user[p].version
           THEN /\ last' = Note(in.hist, p, [last EXCEPT !.status = "failed"])
                /\ UNCHANGED profiles
           ELSE /\ profiles' = [profiles EXCEPT ![v].list = user[p].list, ![v].version = @ + 1]
                /\ last' = Note(in.hist, p, [last EXCEPT !.status = "ok"])
        /\ Respond(p)
        /\ user' = [user EXCEPT ![p] = NoUser]
        /\ UNCHANGED <<sessions, watchHistory, now, watchlist, views, recency, reached,
                       subscription>>

----------------------------------------------------------------------------
(* The specifications.                                                     *)

Step(p, in) ==
    \/ UpFind(p, in)
    \/ UpWrite(p, in)
    \/ UpPull(p, in)
    \/ UpPush(p, in)
    \/ SpFind(p, in)
    \/ SpCreate(p, in)
    \/ McSession(p, in)
    \/ McHistory(p, in)
    \/ ClearWatchHistory(p, in)

\* requests are handled concurrently: any handler takes its next step
Next == \E p \in Procs : Step(p, ConcurrentInputs)

Spec == Init /\ [][Next]_vars

\* one request at a time: a single handler, which takes a call to its response
\* before it starts the next
SeqNext == Step(1, SequentialInputs)

SeqSpec == Init /\ [][SeqNext]_vars

\* one request at a time, of either viewer, the sessions of the other included
CrossNext == Step(1, CrossInputs)

CrossSpec == Init /\ [][CrossNext]_vars

\* one request at a time, with bodies no middleware has checked
EdgeNext == Step(1, EdgeInputs)

EdgeSpec == Init /\ [][EdgeNext]_vars

\* one request at a time, of a viewer with a library of earlier sessions
LibraryNext == Step(1, LibraryInputs)

LibrarySpec == LibraryInit /\ [][LibraryNext]_vars

\* one request at a time, on a content and on an episode of it
EpisodeNext == Step(1, EpisodeInputs)

EpisodeSpec == Init /\ [][EpisodeNext]_vars

\* one request at a time, recommendations among them
RecNext == Step(1, RecInputs) \/ GetPersonalizedRecommendations(1, RecInputs)

RecSpec == RecInit /\ [][RecNext]_vars

\* one request at a time by a viewer holding references to deleted contents
GoneNext ==
    \/ Step(1, GoneInputs)
    \/ GetPersonalizedRecommendations(1, GoneInputs)
    \/ GetTopPicks(1, GoneInputs)

GoneSpec == GoneInit /\ [][GoneNext]_vars

\* one request at a time: playback, a content lookup, recommendations of every kind
ReadNext ==
    \/ Step(1, ReadInputs)
    \/ GetContentById(1, ReadInputs)
    \/ GetPersonalizedRecommendations(1, ReadInputs)
    \/ GetSimilarContent(1, ReadInputs)
    \/ GetBecauseYouWatched(1, ReadInputs)
    \/ GetTopPicks(1, ReadInputs)

ReadSpec == ReadInit /\ [][ReadNext]_vars

\* two progress reports in flight together: a handler takes up its report before
\* the other handler's report has been answered (an answered report has read the
\* clock twice, in its save and in its push)
RaceNext ==
    \E p \in Procs :
        \/ UpFind(p, RaceInputs) /\ now < 2
        \/ UpWrite(p, RaceInputs)
        \/ UpPull(p, RaceInputs)
        \/ UpPush(p, RaceInputs)

RaceSpec == RaceInit /\ [][RaceNext]_vars

\* one request at a time, any store call of which may reject
FaultNext == Step(1, FaultInputs) \/ Fail(1, FaultInputs)

FaultSpec == Init /\ [][FaultNext]_vars

\* one viewer starting playback of paid contents while the subscription is
\* cancelled and the Stripe events arrive
SubNext ==
    \/ SpFind(1, SubInputs)
    \/ SpCreate(1, SubInputs)
    \/ CsFind(1, SubInputs)
    \/ CsSave(1, SubInputs)
    \/ CheckoutCompleted(SubInputs)
    \/ SubscriptionUpdated(SubInputs)
    \/ SubscriptionDeleted(SubInputs)

SubSpec == Init /\ [][SubNext]_vars

\* two requests of one user on the profiles, their awaits interleaving
ProfileNext ==
    \E p \in Procs :
        \/ CpFind(p, ProfileInputs)
        \/ CpSave(p, ProfileInputs)
        \/ DpFind(p, ProfileInputs)
        \/ DpSave(p, ProfileInputs)

ProfileSpec == ProfileInit /\ [][ProfileNext]_vars

TypeOK ==
    /\ now \in 0..MaxNow
    /\ Len(sessions) <= PastSessionCount + MaxSessions
    /\ \A p \in Procs : pc[p] \in {"idle", "up_write", "up_pull", "up_push",
                                   "sp_create", "mc_history", "cs_save", "cp_save",
                                   "dp_save"}

----------------------------------------------------------------------------
(* Properties of the playback sessions and the watch history.              *)

Sessions == 1..Len(sessions)

SameTriple(i, j) ==
    /\ sessions[i].userId = sessions[j].userId
    /\ sessions[i].contentId = sessions[j].contentId
    /\ sessions[i].episodeId = sessions[j].episodeId

\* the call that ran last was a progress report and has been answered
Reported == last.op = "updateProgress" /\ last.status = "ok"

\* C1: once a session is completed, no step of any handler (a progress report
\* with a lower position included) sets its completed flag back to false.
MonotonicCompletion ==
    [][\A s \in Sessions : sessions[s].completed => sessions'[s].completed]_vars

\* a completed session that a later report has taken below 90 %
MonotonicCompletionWitness ==
    \E s \in Sessions :
        /\ sessions[s].completed
        /\ sessions[s].duration > 0
        /\ PctLT(sessions[s].percentage, CompletedAt)

\* C2: a viewer's watch history holds at most one entry per contentId, in every
\* interleaving of the store operations of concurrent progress reports.
OneEntryPerContent ==
    \A v \in Viewers : \A i, j \in 1..Len(watchHistory[v]) :
        i # j => watchHistory[v][i].contentId # watchHistory[v][j].contentId

\* C3: whenever a handler has written the session (a progress report past its
\* save, a markCompleted past its session update), the viewer's history already
\* holds the matching snapshot: no reader sees the one without the other.
SessionAndLedgerTogether ==
    \A p \in Procs :
        /\ pc[p] \in {"up_pull", "up_push"} =>
              \E i \in 1..Len(watchHistory[req[p].viewer]) :
                  LET entry == watchHistory[req[p].viewer][i]
                  IN  /\ entry.contentId = req[p].contentId
                      /\ PctEq(entry.progress, doc[p].rec.percentage)
                      /\ entry.completed = doc[p].rec.completed
        /\ pc[p] = "mc_history" =>
              \A i \in 1..Len(watchHistory[req[p].viewer]) :
                  LET entry == watchHistory[req[p].viewer][i]
                  IN  entry.contentId = req[p].contentId => entry.completed

\* C4: there is at most one open (not completed) session per identity triple,
\* also under concurrent startPlayback and updateProgress calls.
OneOpenSessionPerTriple ==
    \A i, j \in Sessions :
        (i # j /\ SameTriple(i, j)) => (sessions[i].completed \/ sessions[j].completed)

\* C5: a session some save of which computed 90 % or more is stored completed,
\* whatever a concurrent report with a lower position writes before or after.
CompletedSurvivesLowerReport ==
    \A s \in reached : s \in Sessions /\ sessions[s].completed

\* a handler that read the session open and reported a lower position has saved
\* after the save that reached 90 %
CompletedSurvivesLowerReportWitness ==
    \E p \in Procs :
        /\ pc[p] = "up_pull"
        /\ doc[p].id \in reached
        /\ ~doc[p].rec.completed
        /\ sessions[doc[p].id].currentTime = req[p].currentTime
        /\ sessions[doc[p].id].completed

\* C6: after sequential progress reports, the history listed in one page of the
\* capacity holds the contents reported on, each once, the most recent first,
\* cut to the 100 most recent ones: the least recently reported are the ones dropped.
LedgerCapAndDedup ==
    Reported =>
        LET page == getWatchHistory(last.viewer, 1, HistoryCap)
            ids == ContentIds(page.data)
        IN  /\ ids = Take(recency[last.viewer], HistoryCap)
            /\ Len(page.data) = Min(Len(recency[last.viewer]), HistoryCap)
            /\ page.total = Len(page.data)
            /\ \A i, j \in 1..Len(ids) : i # j => ids[i] # ids[j]
            /\ \A i \in 1..(Len(page.data) - 1) :
                   page.data[i].watchedAt > page.data[i + 1].watchedAt

\* more than 100 distinct contents have been reported on, and 100 are listed
LedgerCapAndDedupWitness ==
    /\ Reported
    /\ Len(recency[last.viewer]) > HistoryCap
    /\ Len(getWatchHistory(last.viewer, 1, HistoryCap).data) = HistoryCap

\* C7: no watch history is ever longer than 100 entries, under any interleaving
\* of concurrent progress reports, markCompleted and clear calls.
LedgerWithinCap ==
    \A v \in Viewers : Len(watchHistory[v]) <= HistoryCap

\* an insertion into a full history has dropped its oldest entry
LedgerWithinCapWitness ==
    \E v \in Viewers :
        /\ Len(watchHistory[v]) = HistoryCap
        /\ watchHistory[v][1].contentId = 1
        /\ watchHistory[v][HistoryCap].contentId = PastContent(HistoryCap - 1)

\* C8: a progress report on a content already in the history puts its entry at
\* position 0, leaves the length as it was and the other entries in their order.
RewatchMovesToFront ==
    (Reported /\ \E i \in 1..Len(last.preLedger) : last.preLedger[i].contentId = last.contentId)
        => LET h == watchHistory[last.viewer]
           IN  /\ Len(h) = Len(last.preLedger)
               /\ h[1].contentId = last.contentId
               /\ Tail(h) = SelectSeq(last.preLedger, LAMBDA e : e.contentId # last.contentId)

\* the content reported on was in the history, and not at its head
RewatchMovesToFrontWitness ==
    /\ Reported
    /\ Len(last.preLedger) >= 2
    /\ \E i \in 2..Len(last.preLedger) : last.preLedger[i].contentId = last.contentId
    /\ watchHistory[last.viewer][1].contentId = last.contentId

ResumeAfterReport ==
    (/\ Reported
     /\ ~last.hadCompleted
     /\ last.duration > 0
     /\ last.currentTime * 100 < 90 * last.duration
     /\ sessions[last.sid].userId = last.viewer
     /\ sessions[last.sid].contentId = last.contentId
     /\ sessions[last.sid].episodeId = last.episodeId)
        => LET r == getResumePoint(last.viewer, last.contentId, last.episodeId)
           IN  /\ r.hasResumePoint
               /\ r.currentTime = last.currentTime
               /\ r.percentage[1] * last.duration = last.currentTime * 100 * r.percentage[2]

\* the report moved an existing open session of the triple to 107 of 120 seconds
ResumeAfterReportWitness ==
    /\ Reported
    /\ ~last.created /\ ~last.hadCompleted
    /\ last.currentTime * 100 < 90 * last.duration
    /\ getResumePoint(last.viewer, last.contentId, last.episodeId).sessionId = last.sid
    /\ getResumePoint(last.viewer, last.contentId, last.episodeId).currentTime = 107

----------------------------------------------------------------------------
(* Access, ownership and failure.                                          *)

\* the order of the plan tiers: free < basic < standard < premium
Tier(plan) ==
    CASE plan = "free" -> 0
      [] plan = "basic" -> 1
      [] plan = "standard" -> 2
      [] plan = "premium" -> 3

\* C11: a startPlayback on a content of the catalog by a viewer whose plan tier is
\* below the tier the content requires is answered AccessDenied and leaves the
\* session collection as it was (no session created, none changed); a viewer at
\* or above the required tier is not answered AccessDenied.
AccessGating ==
    (last.op = "startPlayback" /\ last.contentId \in DOMAIN Catalog) =>
        LET below == Tier(UserPlan[last.viewer])
                        < Tier(Catalog[last.contentId].subscriptionRequired)
        IN  /\ below => last.status = "AccessDenied" /\ sessions = last.preSessions
            /\ ~below => last.status # "AccessDenied"

\* the basic-plan viewer, who holds a session already, is refused a standard content
AccessGatingWitness ==
    /\ last.op = "startPlayback"
    /\ last.status = "AccessDenied"
    /\ last.viewer = "v2"
    /\ Catalog[last.contentId].subscriptionRequired = "standard"
    /\ \E s \in Sessions : sessions[s].userId = "v2"

\* C12: no step of a call changes a stored playback session or a watch history
\* that belongs to a viewer other than the one who made the call (last.viewer is
\* the viewer of the call the step belongs to).
NoCrossViewerMutation ==
    [][/\ \A s \in Sessions :
            sessions'[s] # sessions[s] => sessions[s].userId = last'.viewer
       /\ \A v \in Viewers :
            watchHistory'[v] # watchHistory[v] => v = last'.viewer]_vars

\* C13: when a progress report has failed at one of its store calls (the session
\* write, the removal from the history, the insertion into it), the session
\* collection and the viewer's history are either both as they were before the
\* call or both updated (the session written and its snapshot at the head of
\* the history).
AllOrNothingOnFailure ==
    (last.op = "updateProgress" /\ last.status = "failed") =>
        LET h == watchHistory[last.viewer]
        IN  \/ /\ sessions = last.preSessions
               /\ h = last.preLedger
            \/ /\ sessions # last.preSessions
               /\ Len(h) > 0
               /\ h[1].contentId = last.contentId
               /\ h[1].watchedAt = now

----------------------------------------------------------------------------
(* Watch seconds, validation and the range of the percentage.              *)

Max(a, b) == IF a >= b THEN a ELSE b

\* C14: an answered progress report on a session that existed, whose position
\* was p and whose reported position is c, has increased the sessionDuration of
\* the session by max(0, c - p).
WatchSecondsFollowForwardDelta ==
    (Reported /\ ~last.created) =>
        LET before == last.preSessions[last.sid]
        IN  sessions[last.sid].sessionDuration
                = before.sessionDuration + Max(0, last.currentTime - before.currentTime)

\* C15: no step of any handler (startPlayback, updateProgress, markCompleted,
\* a report that seeks backwards included) lowers the sessionDuration of a
\* stored session.
WatchSecondsNeverDecrease ==
    [][\A s \in Sessions :
            sessions'[s].sessionDuration >= sessions[s].sessionDuration]_vars

\* a session that a save had taken to 108 of 120 and a later report took back to 54
WatchSecondsNeverDecreaseWitness ==
    \E s \in reached :
        /\ s \in Sessions
        /\ sessions[s].currentTime = 54
        /\ sessions[s].duration = 120
        /\ sessions[s].sessionDuration >= 0

\* the bodies of a progress report that are out of range
InvalidBody(call) ==
    \/ call.currentTime < 0
    \/ call.duration <= 0
    \/ call.currentTime > call.duration

\* C16: a progress report with a negative currentTime, a duration of zero or
\* less, or a currentTime beyond the duration is never answered with success and
\* changes nothing: the session collection and the viewer's history stay as they
\* were when the call arrived.
InvalidProgressRejected ==
    (last.op = "updateProgress" /\ InvalidBody(last)) =>
        /\ last.status # "ok"
        /\ sessions = last.preSessions
        /\ watchHistory[last.viewer] = last.preLedger

\* a percentage kept as a fraction lies between 0 and 100
InRange(a) == a[1] >= 0 /\ a[1] <= 100 * a[2]

\* C17: in every reachable state the percentage of every stored session lies
\* between 0 and 100 inclusive, and so does the progress of every entry of every
\* watch history, whatever positions and durations were reported.
PercentageInRange ==
    /\ \A s \in Sessions : InRange(sessions[s].percentage)
    /\ \A v \in Viewers : \A i \in 1..Len(watchHistory[v]) :
            InRange(watchHistory[v][i].progress)

\* C18: a progress report on a session that existed leaves the stored duration
\* of the session as it was before the call, also when the call reports a
\* different duration.
DurationImmutable ==
    (last.op = "updateProgress" /\ ~last.created) =>
        sessions[last.sid].duration = last.preSessions[last.sid].duration

\* C18, as the handler behaves: with one request handled at a time, an answered
\* progress report on a session that existed has set the stored duration of the
\* session to the duration the call reported.
DurationFollowsReport ==
    (Reported /\ ~last.created) => sessions[last.sid].duration = last.duration

\* a session of duration 120 after an answered report that gave duration 60
DurationFollowsReportWitness ==
    /\ Reported
    /\ ~last.created
    /\ last.preSessions[last.sid].duration = 120
    /\ last.duration = 60
    /\ sessions[last.sid].duration = 60

----------------------------------------------------------------------------
(* The life of a session after its completion.                             *)

\* order of two percentages kept as fractions
PctLess(a, b) == a[1] * b[2] < b[1] * a[2]

\* C19: once a session is completed (by a save at 90 % or more, or by
\* markCompleted), no step of a later progress report lowers the percentage
\* stored for it.
CompletedIsTerminal ==
    [][\A s \in Sessions :
            sessions[s].completed
                => ~PctLess(sessions'[s].percentage, sessions[s].percentage)]_vars

\* the sessions of the triple of the last call that were open when it arrived
OpenBefore ==
    { i \in 1..Len(last.preSessions) :
        /\ last.preSessions[i].userId = last.viewer
        /\ last.preSessions[i].contentId = last.contentId
        /\ last.preSessions[i].episodeId = last.episodeId
        /\ ~last.preSessions[i].completed }

\* C20: an answered progress report addressed by identity triple has created a
\* new session carrying the reported position when the triple had no open
\* session (also when it had a completed one), and has otherwise written to an
\* open session of the triple.
ReportOpensOrMutatesOpenSession ==
    (Reported /\ last.sessionId = NoSession) =>
        IF OpenBefore = {}
        THEN /\ last.created
             /\ last.sid = Len(last.preSessions) + 1
             /\ sessions[last.sid].currentTime = last.currentTime
        ELSE last.sid \in OpenBefore

----------------------------------------------------------------------------
(* The read handlers of the playback controller and markCompleted.         *)

\* the open sessions of viewer v and content c, of episode e when the query names one
OpenMatching(v, c, e) ==
    { i \in Sessions :
        /\ sessions[i].userId = v
        /\ sessions[i].contentId = c
        /\ ~sessions[i].completed
        /\ (e = NoEpisode \/ sessions[i].episodeId = e) }

\* C21: in every state getResumePoint returns no completed session: when the
\* viewer has open sessions of the content (and of the episode, when one is
\* given) it returns the one updated last, with its position, and otherwise (no
\* session, or completed ones only) it reports no resume point and currentTime 0.
ResumePointIsOpen ==
    \A v \in Viewers, c \in {1, PastContent(2)}, e \in {NoEpisode, "e1"} :
        LET r == getResumePoint(v, c, e)
            M == OpenMatching(v, c, e)
        IN  IF M = {}
            THEN ~r.hasResumePoint /\ r.currentTime = 0
            ELSE /\ r.hasResumePoint
                 /\ r.sessionId \in M
                 /\ \A j \in M : sessions[j].lastUpdated <= sessions[r.sessionId].lastUpdated
                 /\ r.currentTime = sessions[r.sessionId].currentTime

\* the completed session of content 1 was updated after the open one of its
\* episode, and the lookup by content alone returns the open one
ResumePointIsOpenWitness ==
    \E i, j \in Sessions :
        /\ sessions[i].userId = "v1" /\ sessions[i].contentId = 1 /\ sessions[i].completed
        /\ sessions[j].userId = "v1" /\ sessions[j].contentId = 1 /\ ~sessions[j].completed
        /\ sessions[i].lastUpdated > sessions[j].lastUpdated
        /\ getResumePoint("v1", 1, NoEpisode).sessionId = j

\* C22: after an answered markCompleted(viewer, content, episode) every session
\* of that triple has completed = true and percentage 100, and every entry of the
\* viewer's history for that content has completed = true and progress 100.
MarkCompletedCompletesTriple ==
    (last.op = "markCompleted" /\ last.status = "ok") =>
        /\ \A s \in OfTriple(last.viewer, last.contentId, last.episodeId) :
                sessions[s].completed /\ PctEq(sessions[s].percentage, <<100, 1>>)
        /\ \A i \in 1..Len(watchHistory[last.viewer]) :
                watchHistory[last.viewer][i].contentId = last.contentId
                    => /\ watchHistory[last.viewer][i].completed
                       /\ PctEq(watchHistory[last.viewer][i].progress, <<100, 1>>)

\* limits a caller may supply
CallerLimits == {1, ContinueWatchingLimit + 5}

\* r lists sessions of Q without repetition, most recently updated first, and
\* holds the n most recently updated ones when Q has more than n
MostRecentOf(r, Q, n) ==
    /\ \A k \in 1..Len(r) : r[k] \in Q
    /\ \A k, m \in 1..Len(r) : k < m => r[k] # r[m]
    /\ \A k \in 1..(Len(r) - 1) :
            sessions[r[k]].lastUpdated >= sessions[r[k + 1]].lastUpdated
    /\ Len(r) = Min(n, Cardinality(Q))
    /\ \A q \in Q : (\A k \in 1..Len(r) : r[k] # q)
            => \A k \in 1..Len(r) : sessions[q].lastUpdated <= sessions[r[k]].lastUpdated

\* C23: for every limit the caller supplies, the continue-watching list is the
\* viewer's open sessions with a percentage strictly between 5 and 90, most
\* recently updated first, cut to that limit.
ContinueWatchingHonoursLimit ==
    \A v \in Viewers, limit \in CallerLimits :
        LET r == getContinueWatching(v, limit)
        IN  MostRecentOf(r, InProgress(v), limit)

\* C23, as the handler behaves: whatever limit the caller supplies, the list is
\* the viewer's open sessions with a percentage strictly between 5 and 90, most
\* recently updated first, cut to the fixed 20.
ContinueWatchingFixedPage ==
    \A v \in Viewers, limit \in CallerLimits :
        LET r == getContinueWatching(v, limit)
            Q == { i \in Sessions :
                     /\ sessions[i].userId = v
                     /\ ~sessions[i].completed
                     /\ sessions[i].percentage[1] > 5 * sessions[i].percentage[2]
                     /\ sessions[i].percentage[1] < 90 * sessions[i].percentage[2] }
        IN  MostRecentOf(r, Q, 20)

\* more than 20 sessions qualify; the list holds 20, led by a session the viewer
\* has just reported on, and the one updated longest ago is left out
ContinueWatchingFixedPageWitness ==
    /\ Cardinality(InProgress("v1")) > 20
    /\ Len(getContinueWatching("v1", 1)) = 20
    /\ getContinueWatching("v1", 1)[1] > PastSessionCount
    /\ \A k \in 1..20 : getContinueWatching("v1", 1)[k] # 1

----------------------------------------------------------------------------
(* startPlayback.                                                          *)

\* C24: a startPlayback for a content id the catalog does not hold is answered
\* ContentNotFound, whatever the plan of the viewer and whatever sessions exist,
\* and leaves the session collection as it was.
UnknownContentNotFound ==
    (last.op = "startPlayback" /\ last.contentId \notin DOMAIN Catalog) =>
        /\ last.status = "ContentNotFound"
        /\ sessions = last.preSessions

\* the basic-plan viewer, who holds a session, asks for an unknown content
UnknownContentNotFoundWitness ==
    /\ last.op = "startPlayback"
    /\ last.viewer = "v2"
    /\ last.contentId = Unresolved
    /\ last.status = "ContentNotFound"
    /\ \E s \in Sessions : sessions[s].userId = "v2"

\* C25: with one request handled at a time, an answered startPlayback on a triple
\* that had an open session has created nothing, has left every session as it
\* was and returns the position of an open session of the triple; on a triple
\* with no open session it has added exactly one session, at position 0 and
\* open, and returns 0.  A second call in sequence therefore finds the session
\* of the first and adds none.
StartIsIdempotent ==
    (last.op = "startPlayback" /\ last.status = "ok") =>
        IF OpenBefore # {}
        THEN /\ sessions = last.preSessions
             /\ last.sid \in OpenBefore
             /\ last.currentTime = sessions[last.sid].currentTime
        ELSE /\ Len(sessions) = Len(last.preSessions) + 1
             /\ SubSeq(sessions, 1, Len(last.preSessions)) = last.preSessions
             /\ last.sid = Len(sessions)
             /\ sessions[last.sid].userId = last.viewer
             /\ sessions[last.sid].contentId = last.contentId
             /\ sessions[last.sid].episodeId = last.episodeId
             /\ sessions[last.sid].currentTime = 0
             /\ ~sessions[last.sid].completed
             /\ last.currentTime = 0

\* a startPlayback that resumed an open session at position 107 and added none
StartIsIdempotentWitness ==
    /\ last.op = "startPlayback"
    /\ last.status = "ok"
    /\ OpenBefore # {}
    /\ Len(sessions) = 1
    /\ last.currentTime = 107

----------------------------------------------------------------------------
(* The snapshot in the watch history.                                       *)

\* C26: with one request handled at a time, after an answered progress report
\* the entry at the head of the viewer's history is for the reported contentId,
\* and its progress and completed equal the percentage and the completed flag
\* of the stored session the report wrote.
HeadSnapshotMatchesSession ==
    Reported =>
        LET h == watchHistory[last.viewer]
        IN  /\ Len(h) > 0
            /\ h[1].contentId = last.contentId
            /\ h[1].progress = sessions[last.sid].percentage
            /\ h[1].completed = sessions[last.sid].completed

\* a report that took an existing open session to 90 %: session and head entry
\* are both completed at 10800/120
HeadSnapshotMatchesSessionWitness ==
    /\ Reported
    /\ ~last.created
    /\ ~last.wasCompleted
    /\ sessions[last.sid].completed
    /\ watchHistory[last.viewer][1].completed
    /\ watchHistory[last.viewer][1].progress = <<10800, 120>>

----------------------------------------------------------------------------
(* Recommendations *)

\* the score a genre has accumulated, 0 for a genre never met
ScoreOf(scores, genre) ==
    IF \E k \in 1..Len(scores) : scores[k][1] = genre
    THEN scores[CHOOSE k \in 1..Len(scores) : scores[k][1] = genre][2]
    ELSE 0

\* c is in the catalog and carries the genre
Carries(c, genre) ==
    /\ c \in DOMAIN Catalog
    /\ \E g \in 1..Len(Catalog[c].genres) : Catalog[c].genres[g] = genre

RECURSIVE HistoryShare(_, _, _)
\* twice the sum of max(1, 10 - i / 2) over the first k entries of the ledger h
\* (positions i = 0 .. k - 1) whose content carries the genre
HistoryShare(h, genre, k) ==
    IF k = 0 THEN 0
    ELSE (IF Carries(h[k].contentId, genre)
          THEN (IF k - 1 >= 18 THEN 2 ELSE 20 - (k - 1))
          ELSE 0)
         + HistoryShare(h, genre, k - 1)

\* twice 2 for every watchlist item that carries the genre
WatchlistShare(w, genre) ==
    4 * Cardinality({ k \in 1..Len(w) : Carries(w[k], genre) })

AllGenres == { GenreNames[m] : m \in 1..Len(GenreNames) } \cup {"Western"}

\* C27: when personalized recommendations are computed, the score accumulated for
\* a genre is the sum of max(1, 10 - 0.5 i) over the resolvable ledger entries at
\* position i whose content carries the genre, plus 2 for every watchlist item
\* carrying it (scores in halves: 39 is 19.5); a ledger of exactly two Drama
\* contents and no Drama on the watchlist gives Drama 19.5, and an entry at
\* position 18 or later adds exactly 1.
GenreScoreIsWeightedSum ==
    last.op = "getPersonalizedRecommendations" =>
        LET v == last.viewer
            h == watchHistory[v]
            scores == genreScores(v)
        IN  /\ \A genre \in AllGenres :
                ScoreOf(scores, genre)
                    = HistoryShare(h, genre, Len(h)) + WatchlistShare(watchlist[v], genre)
            /\ \A k \in 1..Len(scores) : scores[k][1] \in AllGenres
            /\ ( /\ Len(h) = 2
                 /\ Carries(h[1].contentId, "Drama") /\ Carries(h[2].contentId, "Drama")
                 /\ WatchlistShare(watchlist[v], "Drama") = 0 )
               => ScoreOf(scores, "Drama") = 39
            /\ \A k \in 19..Len(h) : Weight(k - 1) = 2

\* recommendations were computed for a viewer whose ledger holds a resolvable
\* entry at position 18 or later and whose watchlist holds a catalog content
GenreScoreIsWeightedSumWitness ==
    /\ last.op = "getPersonalizedRecommendations"
    /\ \E k \in 19..Len(watchHistory[last.viewer]) :
          watchHistory[last.viewer][k].contentId \in DOMAIN Catalog
    /\ \E k \in 1..Len(watchlist[last.viewer]) :
          watchlist[last.viewer][k] \in DOMAIN Catalog

\* the contents the ledger h marks completed
CompletedIn(h) == { h[k].contentId : k \in { k \in 1..Len(h) : h[k].completed } }

\* C28: personalized recommendations never hold a content that an entry of the
\* viewer's ledger marks completed, whether the content came from the top-genre
\* query or from the popularity fill, and every content returned is published.
RecommendsOnlyUnwatchedPublished ==
    last.op = "getPersonalizedRecommendations" =>
        \A k \in 1..Len(last.picked) :
            /\ last.picked[k] \notin CompletedIn(last.preLedger)
            /\ last.picked[k] \in DOMAIN Catalog
            /\ Catalog[last.picked[k]].status = "published"

\* recommendations were computed with room to spare for a viewer who completed a
\* published content of one of the top genres, and the catalog holds contents
\* that are not published
RecommendsOnlyUnwatchedPublishedWitness ==
    /\ last.op = "getPersonalizedRecommendations"
    /\ 0 < Len(last.picked) /\ Len(last.picked) < last.limit
    /\ \E c \in CompletedIn(last.preLedger) :
          /\ c \in DOMAIN Catalog
          /\ Catalog[c].status = "published"
          /\ \E t \in 1..Len(last.topGenres) : Carries(c, last.topGenres[t])
    /\ \E c \in DOMAIN Catalog : Catalog[c].status # "published"

\* the published contents of the catalog that the ledger h does not mark completed
Eligible(h) ==
    { c \in DOMAIN Catalog : Catalog[c].status = "published" /\ c \notin CompletedIn(h) }

\* C29: personalized recommendations hold exactly min(limit, number of published
\* contents the viewer's ledger does not mark completed) contents, none of them
\* twice; a viewer with empty ledger and empty watchlist gets exactly limit
\* contents when that many are published, and no top genres.
RecommendsExactlyLimit ==
    last.op = "getPersonalizedRecommendations" =>
        LET picked == last.picked
        IN  /\ Len(picked) = Min(last.limit, Cardinality(Eligible(last.preLedger)))
            /\ \A j, k \in 1..Len(picked) : picked[j] = picked[k] => j = k
            /\ ( /\ last.preLedger = <<>>
                 /\ watchlist[last.viewer] = <<>>
                 /\ Cardinality(Eligible(<<>>)) >= last.limit )
               => /\ Len(picked) = last.limit
                  /\ last.topGenres = <<>>

\* recommendations were computed for a viewer with top genres whose contents did
\* not fill the limit, so that the popularity fill added the rest
RecommendsExactlyLimitWitness ==
    /\ last.op = "getPersonalizedRecommendations"
    /\ last.topGenres # <<>>
    /\ Len(last.picked) = last.limit
    /\ \E k \in 1..Len(last.picked) :
          \A t \in 1..Len(last.topGenres) : ~Carries(last.picked[k], last.topGenres[t])
    /\ \E k \in 1..Len(last.picked) :
          \E t \in 1..Len(last.topGenres) : Carries(last.picked[k], last.topGenres[t])

\* the contents the handler meets, in the order it meets them: the ledger h from
\* its head, then the watchlist w
Encountered(h, w) == [ k \in 1..Len(h) |-> h[k].contentId ] \o w

\* where a genre is first met: the place of the first item carrying it and the
\* genre's place among that item's genres
FirstSeen(items, genre) ==
    LET k == CHOOSE k \in 1..Len(items) :
                /\ Carries(items[k], genre)
                /\ \A j \in 1..(k - 1) : ~Carries(items[j], genre)
        genres == Catalog[items[k]].genres
    IN  <<k, CHOOSE g \in 1..Len(genres) : genres[g] = genre>>

\* genre a ranks before genre b: a higher score, or the same score and met first
RanksBefore(h, w, a, b) ==
    LET sa == HistoryShare(h, a, Len(h)) + WatchlistShare(w, a)
        sb == HistoryShare(h, b, Len(h)) + WatchlistShare(w, b)
    IN  \/ sa > sb
        \/ sa = sb /\ KeyLess(FirstSeen(Encountered(h, w), a), FirstSeen(Encountered(h, w), b))

\* C30: the top genres are the (at most) 5 genres of highest accumulated score, in
\* descending order of score, genres of equal score in the order in which they
\* were first met (ledger from its head, then watchlist); the rationale returned
\* is the first 3 of them.
TopGenresRankedStable ==
    last.op = "getPersonalizedRecommendations" =>
        LET h == last.preLedger
            w == watchlist[last.viewer]
            top == last.topGenres
            met == { g \in AllGenres : \E k \in 1..Len(Encountered(h, w)) :
                                            Carries(Encountered(h, w)[k], g) }
        IN  /\ Len(top) = Min(5, Cardinality(met))
            /\ \A i \in 1..Len(top) : top[i] \in met
            /\ \A i, j \in 1..Len(top) : i < j => RanksBefore(h, w, top[i], top[j])
            /\ \A g \in met :
                 (\A i \in 1..Len(top) : top[i] # g)
                    => \A i \in 1..Len(top) : RanksBefore(h, w, top[i], g)
            /\ last.basedOn = SubSeq(top, 1, Min(3, Len(top)))

\* recommendations were computed for a viewer who met more than 5 genres, one of
\* the top genres having the same score as another genre
TopGenresRankedStableWitness ==
    /\ last.op = "getPersonalizedRecommendations"
    /\ Len(last.topGenres) = 5
    /\ Len(genreScores(last.viewer)) > 5
    /\ Len(last.basedOn) = 3
    /\ \E i \in 1..5, g \in AllGenres :
          /\ g # last.topGenres[i]
          /\ ScoreOf(genreScores(last.viewer), g)
                = ScoreOf(genreScores(last.viewer), last.topGenres[i])

\* the ids among the items that the catalog no longer holds
Dangling(items) == { k \in 1..Len(items) : items[k] \notin DOMAIN Catalog }

\* the number of entries of the ledger h whose content is in the catalog and
\* carries the genre
CountShare(h, genre) == Cardinality({ k \in 1..Len(h) : Carries(h[k].contentId, genre) })

\* C31: a ledger entry or watchlist item whose content the catalog no longer holds
\* is passed over by personalized recommendations and by top picks: the call
\* succeeds, every genre's score is what the resolvable entries alone give, no
\* genre is scored that no resolvable entry carries, and a completed entry of a
\* deleted content leaves the number of contents returned as it would be.
UnresolvedEntriesSkipped ==
    LET h == last.preLedger
        w == watchlist[last.viewer]
    IN  /\ last.op = "getPersonalizedRecommendations"
             /\ Dangling(Encountered(h, w)) # {}
           => /\ last.status = "ok"
              /\ \A genre \in AllGenres :
                    ScoreOf(genreScores(last.viewer), genre)
                        = HistoryShare(h, genre, Len(h)) + WatchlistShare(w, genre)
              /\ \A t \in 1..Len(last.topGenres) :
                    \E k \in 1..Len(Encountered(h, w)) :
                        Carries(Encountered(h, w)[k], last.topGenres[t])
              /\ Len(last.picked) = Min(last.limit, Cardinality(Eligible(h)))
        /\ last.op = "getTopPicks" /\ Dangling(Encountered(h, <<>>)) # {}
           => /\ last.status = "ok"
              /\ \A genre \in AllGenres :
                    ScoreOf(genreCount(last.viewer), genre) = CountShare(h, genre)
              /\ \A t \in 1..Len(last.topGenres) : CountShare(h, last.topGenres[t]) > 0
              /\ \A k \in 1..Len(last.picked) : last.picked[k] \in DOMAIN Catalog

\* top picks were computed for a viewer whose ledger holds a completed entry of a
\* deleted content next to an entry that resolves
UnresolvedEntriesSkippedWitness ==
    /\ last.op = "getTopPicks"
    /\ last.status = "ok"
    /\ \E k \in 1..Len(last.preLedger) :
          /\ last.preLedger[k].contentId \notin DOMAIN Catalog
          /\ last.preLedger[k].completed
    /\ \E k \in 1..Len(last.preLedger) : last.preLedger[k].contentId \in DOMAIN Catalog
    /\ last.topGenres # <<>>

ReadOps ==
    { "getPersonalizedRecommendations", "getSimilarContent", "getBecauseYouWatched",
      "getTopPicks" }

\* the answer a recommendation call gets from the stored data alone
AnswerOf(call) ==
    IF call.status # "ok" THEN <<>>
    ELSE IF call.op = "getSimilarContent" THEN SimilarContent(call.contentId, call.limit)
    ELSE IF call.op = "getBecauseYouWatched"
         THEN BecauseYouWatched(call.contentId, call.limit)
    ELSE IF call.op = "getTopPicks" THEN TopPicks(call.viewer, call.limit)
    ELSE LET primary == PrimaryRecommendations(call.viewer, call.limit)
         IN  primary \o AdditionalRecs(call.viewer, call.limit, primary)

\* C32: a recommendation call (personalized, similar content, because you
\* watched, top picks) leaves every playback session, ledger, watchlist and view
\* counter of the catalog as it was, and its answer is determined by the stored
\* data and the request alone, whatever call came before.
RecommendationsAreReadOnly ==
    [][ (last' # last /\ last'.op \in ReadOps)
            => /\ UNCHANGED <<sessions, watchHistory, watchlist, views>>
               /\ last'.picked = AnswerOf(last') ]_vars

\* a recommendation call answered with contents after sessions were written and a
\* content's view counter was raised
RecommendationsAreReadOnlyWitness ==
    /\ last.op = "getBecauseYouWatched"
    /\ last.status = "ok"
    /\ last.picked # <<>>
    /\ views # InitialViews
    /\ Len(sessions) > ReadPastCount

LedgerCompleted(h, c) == \E k \in 1..Len(h) : h[k].contentId = c /\ h[k].completed

\* C34: once a viewer's ledger entry for a content is completed, the ledger entry
\* for that content is completed after every later progress report for the
\* content, so that the content stays out of the personalized recommendations.
LedgerCompletionSticks ==
    (Reported /\ LedgerCompleted(last.preLedger, last.contentId))
        => LedgerCompleted(watchHistory[last.viewer], last.contentId)

\* two progress reports were answered: each read the clock in its save and in
\* its push, and no handler is at work
BothReported == now = 4 /\ \A p \in Procs : pc[p] = "idle"

\* C35: after two concurrent progress reports on the same session have both been
\* answered, in every interleaving of their steps, the ledger entry of the
\* content carries the completed flag of the stored session.
ConcurrentReportsAgree ==
    BothReported =>
        \A k \in 1..Len(watchHistory["v1"]) :
            watchHistory["v1"][k].contentId = sessions[1].contentId
                => watchHistory["v1"][k].completed = sessions[1].completed

\* C36: an answered markCompleted has created no session and no ledger entry and
\* has left the ledger's length and order as they were: sessions outside the
\* triple are untouched and a session of the triple differs at most in completed
\* and percentage; entries of other contents are untouched and an entry of the
\* content differs at most in completed and progress; with no session of the
\* triple the sessions, with no entry of the content the ledger, are what they were.
MarkCompletedFrame ==
    (last.op = "markCompleted" /\ last.status = "ok") =>
        LET before == last.preSessions
            h == last.preLedger
            g == watchHistory[last.viewer]
            ofTriple(s) == /\ s.userId = last.viewer
                           /\ s.contentId = last.contentId
                           /\ s.episodeId = last.episodeId
        IN  /\ Len(sessions) = Len(before)
            /\ \A i \in 1..Len(before) :
                  IF ofTriple(before[i])
                  THEN [sessions[i] EXCEPT !.completed = before[i].completed,
                                           !.percentage = before[i].percentage] = before[i]
                  ELSE sessions[i] = before[i]
            /\ Len(g) = Len(h)
            /\ \A k \in 1..Len(h) :
                  IF h[k].contentId = last.contentId
                  THEN [g[k] EXCEPT !.completed = h[k].completed,
                                    !.progress = h[k].progress] = h[k]
                  ELSE g[k] = h[k]

\* markCompleted was answered for a content whose entry, not the first of the
\* ledger, was not completed before, beside a session of another triple
MarkCompletedFrameWitness ==
    /\ last.op = "markCompleted" /\ last.status = "ok"
    /\ \E k \in 2..Len(last.preLedger) :
          /\ last.preLedger[k].contentId = last.contentId
          /\ ~last.preLedger[k].completed
          /\ watchHistory[last.viewer][k].completed
    /\ \E i \in 1..Len(sessions) : sessions[i].contentId # last.contentId


----------------------------------------------------------------------------
(* Properties of the subscription and of the profiles.                      *)

\* the call that ran last started playback of a content that requires a paid plan
PaidPlaybackStarted ==
    /\ last.op = "startPlayback"
    /\ last.status \in {"ok", "running"}
    /\ last.contentId \in DOMAIN Catalog
    /\ Catalog[last.contentId].subscriptionRequired # "free"

\* C37: playback of a content that requires a paid plan starts only for a
\* viewer whose subscription status is active when the request is handled;
\* after a cancellation that keeps the plan name, or any other change of the
\* status away from active, the request is denied.
PaidPlaybackNeedsActive ==
    PaidPlaybackStarted => last.subscription.status = "active"

\* C38: no user ever holds more than five profiles, whatever createProfile and
\* deleteProfile calls ran and however the steps of two calls interleaved.
ProfilesAtMostFive ==
    \A v \in Viewers : Len(profiles[v].list) <= MaxProfiles

====
